---- MODULE Spec2Model ----
(***************************************************************************)
(* Bookmark Manager Helper extension: the message router of background.js  *)
(* (one-shot channel and persistent connections), the batch mutator        *)
(* deleteBookmarks, the lookup resolver findBookmarksByUrl, and the manual *)
(* page (delete loop, clipboard paste, file import, id parsing), all        *)
(* running against the native bookmark store.                               *)
(*                                                                          *)
(* Strings are sequences of one-character strings, so that String(id),      *)
(* iteration over a string and line splitting are computed, not assumed.    *)
(***************************************************************************)
EXTENDS Integers, Sequences, FiniteSets, TLC

\* ------------------------------------------------------------------ bounds
\* Longest bookmarkIds / urls array a caller sends.
MaxLen == 2
\* Most clipboard reads, and most file reads, the page has pending at a time.
MaxReads == 1

\* ------------------------------------------------------------ JS values
Digits == <<"0", "1", "2", "3", "4", "5", "6", "7", "8", "9">>

RECURSIVE NatToStr(_)
\* Decimal rendering of a non-negative integer (Number::toString).
NatToStr(n) ==
  IF n < 10 THEN <<Digits[n + 1]>>
  ELSE NatToStr(n \div 10) \o <<Digits[(n % 10) + 1]>>

\* A JSON value that can sit in a bookmarkIds / urls array.
Num(n) == [t |-> "num", n |-> n, s |-> <<>>]
StrV(s) == [t |-> "str", n |-> 0, s |-> s]
Null == [t |-> "null", n |-> 0, s |-> <<>>]

\* String(id) of background.js:53 and :57.
ToStr(v) ==
  CASE v.t = "num" -> NatToStr(v.n)
    [] v.t = "str" -> v.s
    [] v.t = "null" -> <<"n", "u", "l", "l">>

\* The value of request.bookmarkIds / request.urls: an array, or one of the
\* other shapes a JSON message can put (or leave out) in that field.
Arr(items) == [shape |-> "array", items |-> items, chars |-> <<>>]
Undef == [shape |-> "undefined", items |-> <<>>, chars |-> <<>>]
StrP(s) == [shape |-> "string", items |-> <<>>, chars |-> s]
NumP == [shape |-> "number", items |-> <<>>, chars |-> <<>>]
ObjP == [shape |-> "object", items |-> <<>>, chars |-> <<>>]

\* for (const x of payload): arrays and strings are iterable; anything else
\* throws a TypeError.
Iterable(p) == p.shape \in {"array", "string"}

\* The surrogates, the code units by which UTF-16 writes a character outside
\* the basic plane as a pair: a high one (U+D800 to U+DBFF) and then a low
\* one (U+DC00 to U+DFFF).
Surrogates ==
  LET hex == {"0", "1", "2", "3", "4", "5", "6", "7", "8", "9", "A", "B", "C", "D", "E", "F"}
      Units(lead) == {"U+D" \o h \o x \o y : h \in lead, x \in hex, y \in hex}
  IN [high |-> Units({"8", "9", "A", "B"}), low |-> Units({"C", "D", "E", "F"})]

\* The items the loop visits. A string yields its characters one code point
\* at a time: a high surrogate and the low surrogate after it are one item,
\* any other code unit (a surrogate without its partner too) is one alone.
IterItems(p) ==
  LET s == p.chars
      \* code unit i is the second of a pair
      Paired(i) == i > 1 /\ s[i] \in Surrogates.low /\ s[i - 1] \in Surrogates.high
      starts == {i \in 1..Len(s) : ~Paired(i)}
      Start(k) == CHOOSE i \in starts : Cardinality({j \in starts : j <= i}) = k
      Item(i) == IF i < Len(s) /\ Paired(i + 1) THEN <<s[i], s[i + 1]>> ELSE <<s[i]>>
  IN IF p.shape = "array" THEN p.items
     ELSE IF p.shape = "string"
          THEN [k \in 1..Cardinality(starts) |-> StrV(Item(Start(k)))]
          ELSE <<>>

NotIterableMsg(op) ==
  IF op = "remove" THEN "bookmarkIds is not iterable" ELSE "urls is not iterable"

\* ------------------------------------------------------ the bookmark store
\* A bookmark node of the native store.
Bookmark(id, title, url, parentId) ==
  [id |-> id, title |-> title, url |-> url, parentId |-> parentId,
   dateAdded |-> 1700]

UrlA == <<"a">>
UrlB == <<"b">>
UrlZ == <<"z">>

\* The store when the extension starts: two bookmarks on the same URL, one on
\* another; ids "1", "12", "2".
InitStore ==
  << Bookmark(<<"1">>, "T1", UrlA, <<"0">>),
     Bookmark(<<"1", "2">>, "T12", UrlA, <<"5">>),
     Bookmark(<<"2">>, "T2", UrlB, <<"0">>) >>

NotFoundMsg == "Can't find bookmark for id."
StoreFaultMsg == "store fault"
NoError == "undefined"

RECURSIVE WithoutId(_, _, _)
\* The nodes of st from position k on whose id is not id, in store order.
WithoutId(st, id, k) ==
  IF k > Len(st) THEN <<>>
  ELSE (IF st[k].id # id THEN <<st[k]>> ELSE <<>>) \o WithoutId(st, id, k + 1)

RECURSIVE WithUrl(_, _, _)
\* The nodes of st from position k on whose url is url, in store order.
WithUrl(st, url, k) ==
  IF k > Len(st) THEN <<>>
  ELSE (IF st[k].url = url THEN <<st[k]>> ELSE <<>>) \o WithUrl(st, url, k + 1)

HasId(st, id) == \E k \in 1..Len(st) : st[k].id = id

\* chrome.bookmarks.remove(id) on store st: the store without that node.
RemoveById(st, id) == WithoutId(st, id, 1)

\* chrome.bookmarks.search({url}) on store st: the nodes with that URL, in
\* store order.
SearchByUrl(st, url) == WithUrl(st, url, 1)

\* A store call: owner is the batch that issued it, k its item's position.
Call(owner, k, op, arg) ==
  [owner |-> owner, k |-> k, op |-> op, arg |-> arg,
   st |-> "pending", matches |-> <<>>, err |-> NoError]

\* The ways the store can settle a pending call c on store st, as pairs
\* <<settled call, store afterwards>>. A remove of an absent id faults; a
\* remove of a present id succeeds or faults (non-empty folder, managed
\* node, I/O); a search returns its matches or faults, and a search whose
\* url is not a string is refused.
SettleOutcomes(c, st) ==
  IF c.op = "remove"
  THEN (IF HasId(st, c.arg.s)
        THEN { <<[c EXCEPT !.st = "ok"], RemoveById(st, c.arg.s)>>,
               <<[c EXCEPT !.st = "fault", !.err = StoreFaultMsg], st>> }
        ELSE { <<[c EXCEPT !.st = "fault", !.err = NotFoundMsg], st>> })
  ELSE IF c.arg.t = "str"
  THEN { <<[c EXCEPT !.st = "ok", !.matches = SearchByUrl(st, c.arg.s)], st>>,
         <<[c EXCEPT !.st = "fault", !.err = StoreFaultMsg], st>> }
  ELSE { <<[c EXCEPT !.st = "fault", !.err = "url is not a string"], st>> }

\* ------------------------------------------------------- requests, results
\* An inbound request envelope {action, bookmarkIds?, urls?}.
Msg(action, ids, urls) == [action |-> action, bookmarkIds |-> ids, urls |-> urls]
NoMsg == Msg("none", Undef, Undef)

\* Values a caller puts in bookmarkIds: a number (the id of a present
\* bookmark) and a string (the id of no bookmark).
IdVals == {Num(12), StrV(<<"7">>)}
\* URLs a caller looks up: one with two bookmarks, one with none.
UrlVals == {StrV(UrlA), StrV(UrlZ)}

SeqsUpTo(S, n) == UNION {[1..k -> S] : k \in 0..n}

\* Shapes of a required field that are not an array: among them the string
\* "12" and a string of one character outside the basic plane (U+1F600, two
\* code units).
Malformed == {Undef, StrP(<<"1", "2">>), StrP(<<"U+D83D", "U+DE00">>), NumP, ObjP}

Messages ==
  {Msg("deleteBookmarks", Arr(l), Undef) : l \in SeqsUpTo(IdVals, MaxLen)}
  \cup {Msg("deleteBookmarks", p, Undef) : p \in Malformed}
  \cup {Msg("findBookmarksByUrl", Undef, Arr(l)) : l \in SeqsUpTo(UrlVals, MaxLen)}
  \cup {Msg("findBookmarksByUrl", Undef, p) : p \in Malformed}
  \cup {Msg("ping", Undef, Undef), Msg("ping", Arr(<<Num(12)>>), Undef)}
  \cup {Msg("exportBookmarks", Arr(<<Num(12)>>), Undef)}

\* One entry of a deleteBookmarks result list: {id, success} or
\* {id, success, error}.
DelEntry(id, ok, err) ==
  [keys |-> IF ok THEN {"id", "success"} ELSE {"id", "success", "error"},
   id |-> id, url |-> Null, success |-> ok, error |-> err, bookmarks |-> <<>>]

\* b => ({id, title, url, parentId}) of findBookmarksByUrl.
Match(b) == [id |-> b.id, title |-> b.title, url |-> b.url, parentId |-> b.parentId]

\* Faulty variant: a lookup that reports a URL nobody bookmarked as an error.
FindEntryEmptyIsError(url, ok, matches, err) ==
  [keys |-> IF ok /\ matches # <<>> THEN {"url", "bookmarks"} ELSE {"url", "error", "bookmarks"},
   id |-> <<>>, url |-> url, success |-> FALSE,
   error |-> IF ok /\ matches = <<>> THEN "No bookmarks found" ELSE err,
   bookmarks |-> IF ok THEN [k \in 1..Len(matches) |-> Match(matches[k])] ELSE <<>>]

\* One entry of a findBookmarksByUrl result list: {url, bookmarks} or
\* {url, error, bookmarks: []}.
FindEntry(url, ok, matches, err) ==
  [keys |-> IF ok THEN {"url", "bookmarks"} ELSE {"url", "error", "bookmarks"},
   id |-> <<>>, url |-> url, success |-> FALSE, error |-> err,
   bookmarks |-> IF ok THEN [k \in 1..Len(matches) |-> Match(matches[k])] ELSE <<>>]

\* Response envelopes.
OkResults(rs) ==
  [keys |-> {"success", "results"}, success |-> TRUE, results |-> rs,
   error |-> NoError, message |-> ""]
Failure(err) ==
  [keys |-> {"success", "error"}, success |-> FALSE, results |-> <<>>,
   error |-> err, message |-> ""]
Pong ==
  [keys |-> {"success", "message"}, success |-> TRUE, results |-> <<>>,
   error |-> NoError, message |-> "Extension is active"]

\* --------------------------------------------------- page: text handling
\* A text is a sequence of characters (UTF-16 code units). A character is
\* written as a one-character string; one that cannot be written so is
\* written as "U+" and the four upper-case hex digits of its code, as in
\* "U+000B" for the vertical tab.
\*
\* The characters String.prototype.trim() strips: WhiteSpace (tab, vertical
\* tab, form feed, space, no-break space, byte order mark and the other
\* space separators) and LineTerminator (LF, CR, line and paragraph
\* separator).
IsSpace(c) ==
  c \in {"\t", "U+000B", "\f", " ", "U+00A0", "U+FEFF",
         "U+1680", "U+2000", "U+2001", "U+2002", "U+2003", "U+2004", "U+2005",
         "U+2006", "U+2007", "U+2008", "U+2009", "U+200A", "U+202F", "U+205F",
         "U+3000",
         "\n", "\r", "U+2028", "U+2029"}

RECURSIVE SplitAcc(_, _, _, _)
\* String.prototype.split('\n'), scanning s from position k.
SplitAcc(s, k, cur, acc) ==
  IF k > Len(s) THEN Append(acc, cur)
  ELSE IF s[k] = "\n" THEN SplitAcc(s, k + 1, <<>>, Append(acc, cur))
  ELSE SplitAcc(s, k + 1, Append(cur, s[k]), acc)

Split(s) == SplitAcc(s, 1, <<>>, <<>>)

RECURSIVE TrimLeft(_)
TrimLeft(l) == IF l # <<>> /\ IsSpace(Head(l)) THEN TrimLeft(Tail(l)) ELSE l

RECURSIVE TrimRight(_)
TrimRight(l) ==
  IF l # <<>> /\ IsSpace(l[Len(l)]) THEN TrimRight(SubSeq(l, 1, Len(l) - 1)) ELSE l

\* Faulty variant: a trim that strips the front only, as trimStart() would.
TrimLeftOnly(l) == TrimLeft(l)

\* String.prototype.trim().
Trim(l) == TrimRight(TrimLeft(l))

\* line => line.length > 0 && !line.startsWith('#')
KeepLine(l) == Len(l) > 0 /\ l[1] # "#"

RECURSIVE KeptLines(_, _)
\* Array.prototype.filter with KeepLine, from position k on.
KeptLines(ls, k) ==
  IF k > Len(ls) THEN <<>>
  ELSE (IF KeepLine(ls[k]) THEN <<ls[k]>> ELSE <<>>) \o KeptLines(ls, k + 1)

\* getIds(): the trimmed, non-blank, non-comment lines of the input text.
GetIds(text) ==
  LET lines == Split(text)
      trimmed == [k \in 1..Len(lines) |-> Trim(lines[k])]
  IN KeptLines(trimmed, 1)

\* Texts the operator types into the input.
Texts ==
  { <<>>,
    <<"1", "2", "\n", "7">>,
    <<" ", "1", "2", " ", "\n", "#", "x", "\n", "\n", "2">> }

\* Faulty variant: a percentage that is cut off, as Math.floor or parseInt would.
PercentFloor(done, total) == (done * 100) \div total

\* The arithmetic of the page is that of IEEE 754 doubles. A positive double
\* is a record of its mantissa m (53 bits, most significant first, the first
\* one set) and the number f of those bits that lie, counted from the least
\* significant one, after the binary point: its value is m / 2^f.

RECURSIVE BitsOf(_)
\* The bits of a natural number, most significant first; none for zero.
BitsOf(n) == IF n = 0 THEN <<>> ELSE BitsOf(n \div 2) \o <<n % 2>>

RECURSIVE ValueOf(_)
\* The natural number a bit sequence stands for.
ValueOf(bits) ==
  IF bits = <<>> THEN 0 ELSE 2 * ValueOf(SubSeq(bits, 1, Len(bits) - 1)) + bits[Len(bits)]

RECURSIVE PlusOne(_)
\* bits + 1 at the same width; all zeros when the sum does not fit.
PlusOne(bits) ==
  IF bits = <<>> THEN <<>>
  ELSE IF bits[Len(bits)] = 0 THEN SubSeq(bits, 1, Len(bits) - 1) \o <<1>>
  ELSE PlusOne(SubSeq(bits, 1, Len(bits) - 1)) \o <<0>>

\* The double for mantissa bits m with f fraction bits, rounded up by one
\* unit in the last place when up is true.
RoundedDouble(m, f, up) ==
  IF ~up THEN [m |-> m, f |-> f]
  ELSE IF \A i \in 1..Len(m) : m[i] = 1
       THEN [m |-> <<1>> \o [i \in 1..(Len(m) - 1) |-> 0], f |-> f - 1]
  ELSE [m |-> PlusOne(m), f |-> f]

RECURSIVE Scale(_, _)
\* The least s with k * 2^s >= n.
Scale(k, n) == IF k >= n THEN 0 ELSE 1 + Scale(2 * k, n)

RECURSIVE DivBits(_, _, _, _)
\* Long division: the next c bits of the quotient after remainder r (r < n),
\* appended to acc, and the remainder left.
DivBits(r, n, c, acc) ==
  IF c = 0 THEN [bits |-> acc, rem |-> r]
  ELSE IF 2 * r >= n THEN DivBits(2 * r - n, n, c - 1, Append(acc, 1))
  ELSE DivBits(2 * r, n, c - 1, Append(acc, 0))

\* k / n for naturals 1 <= k <= n: the quotient rounded to 53 bits, to
\* nearest, ties to even.
DoubleDiv(k, n) ==
  LET s == Scale(k, n)
      d == DivBits(k * (2 ^ s) - n, n, 52, <<1>>)
      up == 2 * d.rem > n \/ (2 * d.rem = n /\ d.bits[53] = 1)
  IN RoundedDouble(d.bits, 52 + s, up)

RECURSIVE MulBits(_, _, _, _, _)
\* bits[1..i] * c + carry, as bits, followed by acc.
MulBits(bits, i, c, carry, acc) ==
  IF i = 0 THEN BitsOf(carry) \o acc
  ELSE MulBits(bits, i - 1, c, (c * bits[i] + carry) \div 2,
               <<(c * bits[i] + carry) % 2>> \o acc)

\* x * c for a double x and a natural c >= 1: the product rounded to 53
\* bits, to nearest, ties to even.
DoubleTimes(x, c) ==
  LET prod == MulBits(x.m, Len(x.m), c, 0, <<>>)
      d == Len(prod) - 53
      keep == SubSeq(prod, 1, 53)
      up == /\ d > 0 /\ prod[54] = 1
            /\ ((\E i \in 55..Len(prod) : prod[i] = 1) \/ keep[53] = 1)
  IN RoundedDouble(keep, x.f - d, up)

\* Number.prototype.toFixed(0) of a double below 2^52: the nearest integer,
\* the larger one of two that are equally near.
ToFixed0(x) ==
  LET ib == 53 - x.f
  IN IF ib < 0 THEN 0
     ELSE ValueOf(SubSeq(x.m, 1, ib)) + (IF ib < 53 /\ x.m[ib + 1] = 1 THEN 1 ELSE 0)

\* ((i + 1) / total * 100).toFixed(0): the quotient, then the product, each
\* rounded to a double, then the nearest integer.
Percent(done, total) == ToFixed0(DoubleTimes(DoubleDiv(done, total), 100))

\* --------------------------------------------------- page: file import
\* A value JSON.parse returns (or undefined, which a missing key reads as).
JVal(t, n, s, items, fields) == [t |-> t, n |-> n, s |-> s, items |-> items, fields |-> fields]
JUndefined == JVal("undefined", 0, <<>>, <<>>, <<>>)
JNull == JVal("null", 0, <<>>, <<>>, <<>>)
JBool(b) == JVal("boolean", IF b THEN 1 ELSE 0, <<>>, <<>>, <<>>)
\* A number: s holds its sign ("-" first when negative) and its significant
\* decimal digits d1 .. dk (no zero at either end, none at all for zero), n
\* the position of the decimal point: the value is 0.d1 .. dk times 10^n.
\* Infinity has the one "digit" I.
JNumber(neg, digits, point) ==
  JVal("number", point, (IF neg THEN <<"-">> ELSE <<>>) \o digits, <<>>, <<>>)
JString(s) == JVal("string", 0, s, <<>>, <<>>)
JArray(items) == JVal("array", 0, <<>>, items, <<>>)
JObject(fields) == JVal("object", 0, <<>>, <<>>, fields)

\* The outcome of parsing a value: the value and the position after it, or
\* a SyntaxError.
Parsed(v, k) == [ok |-> TRUE, v |-> v, k |-> k]
SyntaxError == [ok |-> FALSE, v |-> JUndefined, k |-> 0]

IsDigit(c) == \E d \in 1..10 : Digits[d] = c
DigitVal(c) == (CHOOSE d \in 1..10 : Digits[d] = c) - 1

\* The printable ASCII characters, from code 32 (space) to code 126 (~); the
\* grave accent, code 96, cannot be written in a string.
Ascii ==
  <<" ", "!", "\"", "#", "$", "%", "&", "'", "(", ")", "*", "+", ",", "-", ".", "/",
     "0", "1", "2", "3", "4", "5", "6", "7", "8", "9", ":", ";", "<", "=", ">", "?",
     "@", "A", "B", "C", "D", "E", "F", "G", "H", "I", "J", "K", "L", "M", "N", "O",
     "P", "Q", "R", "S", "T", "U", "V", "W", "X", "Y", "Z", "[", "\\", "]", "^", "_",
     "U+0060", "a", "b", "c", "d", "e", "f", "g", "h", "i", "j", "k", "l", "m", "n", "o",
     "p", "q", "r", "s", "t", "u", "v", "w", "x", "y", "z", "{", "|", "}", "~" >>

\* The hex digits: the sixteen with upper-case letters, then the lower-case
\* letters.
HexDigits ==
  <<"0", "1", "2", "3", "4", "5", "6", "7", "8", "9", "A", "B", "C", "D", "E", "F",
    "a", "b", "c", "d", "e", "f">>
\* The value of a hex digit, -1 for any other character.
HexVal(c) ==
  IF \E d \in 1..22 : HexDigits[d] = c
  THEN LET d == CHOOSE d \in 1..22 : HexDigits[d] = c IN IF d <= 16 THEN d - 1 ELSE d - 7
  ELSE -1

\* The character with a given code.
CharOf(code) ==
  IF code \in 32..126 THEN Ascii[code - 31]
  ELSE IF code = 9 THEN "\t"
  ELSE IF code = 10 THEN "\n"
  ELSE IF code = 12 THEN "\f"
  ELSE IF code = 13 THEN "\r"
  ELSE "U+" \o HexDigits[(code \div 4096) + 1] \o HexDigits[((code \div 256) % 16) + 1]
            \o HexDigits[((code \div 16) % 16) + 1] \o HexDigits[(code % 16) + 1]

RECURSIVE SkipWs(_, _)
\* JSON white space from position k on.
SkipWs(s, k) ==
  IF k <= Len(s) /\ s[k] \in {" ", "\n", "\t", "\r"} THEN SkipWs(s, k + 1) ELSE k

\* The character a two-character escape sequence \c of a JSON string stands
\* for; <<>> when there is no such escape.
Unescape(c) ==
  CASE c = "n" -> <<"\n">>
    [] c = "t" -> <<"\t">>
    [] c = "r" -> <<"\r">>
    [] c = "b" -> <<CharOf(8)>>
    [] c = "f" -> <<"\f">>
    [] c \in {"\"", "\\", "/"} -> <<c>>
    [] OTHER -> <<>>

\* The character the escape \uXXXX stands for, u being at position k;
\* <<>> when four hex digits do not follow.
UnescapeU(s, k) ==
  IF k + 4 <= Len(s) /\ \A j \in 1..4 : HexVal(s[k + j]) >= 0
  THEN <<CharOf(4096 * HexVal(s[k + 1]) + 256 * HexVal(s[k + 2])
                 + 16 * HexVal(s[k + 3]) + HexVal(s[k + 4]))>>
  ELSE <<>>

RECURSIVE ParseString(_, _, _)
\* A JSON string whose opening quote is before position k. A control
\* character (code below 32) must be escaped.
ParseString(s, k, acc) ==
  IF k > Len(s) THEN SyntaxError
  ELSE IF s[k] = "\"" THEN Parsed(JString(acc), k + 1)
  ELSE IF \E code \in 0..31 : s[k] = CharOf(code) THEN SyntaxError
  ELSE IF s[k] = "\\"
       THEN (IF k + 1 > Len(s) THEN SyntaxError
             ELSE IF s[k + 1] = "u"
             THEN (IF UnescapeU(s, k + 1) = <<>> THEN SyntaxError
                   ELSE ParseString(s, k + 6, acc \o UnescapeU(s, k + 1)))
             ELSE IF Unescape(s[k + 1]) = <<>> THEN SyntaxError
             ELSE ParseString(s, k + 2, acc \o Unescape(s[k + 1])))
  ELSE ParseString(s, k + 1, Append(acc, s[k]))

\* The position after the digits that start at position k.
DigitRun(s, k) ==
  CHOOSE e \in k..(Len(s) + 1) :
    (e > Len(s) \/ ~IsDigit(s[e])) /\ \A j \in k..(e - 1) : IsDigit(s[j])

RECURSIVE NatOf(_, _)
\* The value of a digit sequence after value n, exact below 2 * 10^9;
\* 2 * 10^9 stands for every value from there on.
NatOf(ds, n) ==
  IF ds = <<>> THEN n
  ELSE IF n >= 200000000 THEN 2000000000
  ELSE NatOf(Tail(ds), 10 * n + DigitVal(Head(ds)))

\* The number of zeros a digit sequence starts with.
LeadingZeros(ds) ==
  (CHOOSE e \in 1..(Len(ds) + 1) :
     (e > Len(ds) \/ ds[e] # "0") /\ \A j \in 1..(e - 1) : ds[j] = "0") - 1

\* A digit sequence without the zeros it ends with.
DropTrailingZeros(ds) ==
  SubSeq(ds, 1, CHOOSE e \in 0..Len(ds) :
                  (e = 0 \/ ds[e] # "0") /\ \A j \in (e + 1)..Len(ds) : ds[j] = "0")

\* A natural number beyond the range of the model checker's integers is the
\* sequence of its digits in base 10^4, least significant first and the most
\* significant one not zero; zero is the empty sequence.

\* a < b.
BigLess(a, b) ==
  \/ Len(a) < Len(b)
  \/ /\ Len(a) = Len(b)
     /\ \E i \in 1..Len(a) : a[i] < b[i] /\ \A j \in (i + 1)..Len(a) : a[j] = b[j]

\* The number of the digits a, some of the most significant ones zero.
BigTrim(a) ==
  LET set == {j \in 1..Len(a) : a[j] # 0}
  IN IF set = {} THEN <<>> ELSE SubSeq(a, 1, CHOOSE j \in set : \A l \in set : l <= j)

\* a + b: a carry enters digit i when a digit below it overflows and every
\* digit in between is full.
BigPlus(a, b) ==
  LET n == IF Len(a) > Len(b) THEN Len(a) ELSE Len(b)
      sum(i) == (IF i <= Len(a) THEN a[i] ELSE 0) + (IF i <= Len(b) THEN b[i] ELSE 0)
      carry(i) ==
        /\ i > 1
        /\ \/ sum(i - 1) >= 10000
           \/ /\ sum(i - 1) = 9999
              /\ \E j \in 1..(i - 2) :
                   sum(j) >= 10000 /\ \A l \in (j + 1)..(i - 2) : sum(l) = 9999
  IN [i \in 1..n |-> (sum(i) + (IF carry(i) THEN 1 ELSE 0)) % 10000]
       \o (IF carry(n + 1) THEN <<1>> ELSE <<>>)

\* a - b for a >= b: digit i lends when a digit below it falls short and
\* every digit in between is zero.
BigMinus(a, b) ==
  LET diff(i) == a[i] - (IF i <= Len(b) THEN b[i] ELSE 0)
      borrow(i) ==
        /\ i > 1
        /\ \/ diff(i - 1) < 0
           \/ /\ diff(i - 1) = 0
              /\ \E j \in 1..(i - 2) :
                   diff(j) < 0 /\ \A l \in (j + 1)..(i - 2) : diff(l) = 0
  IN BigTrim([i \in 1..Len(a) |-> (diff(i) - (IF borrow(i) THEN 1 ELSE 0) + 10000) % 10000]
               \o <<>>)

\* a * c for a factor c from 1 to 10^4: the low halves of the products of
\* the digits, plus their high halves one place up.
BigTimes(a, c) ==
  BigTrim(BigPlus([i \in 1..Len(a) |-> (a[i] * c) % 10000] \o <<>>,
                  <<0>> \o [i \in 1..Len(a) |-> (a[i] * c) \div 10000]))

RECURSIVE Shift2(_, _)
\* a * 2^n.
Shift2(a, n) ==
  IF a = <<>> THEN <<>>
  ELSE IF n <= 13 THEN BigTimes(a, 2 ^ n)
  ELSE Shift2(Shift2(a, n \div 2), n - n \div 2)

\* a * 10^n.
Shift10(a, n) ==
  IF a = <<>> THEN <<>> ELSE [i \in 1..(n \div 4) |-> 0] \o BigTimes(a, 10 ^ (n % 4))

\* num / den < 2^e.
BelowPower(num, den, e) ==
  BigLess(Shift2(num, IF e < 0 THEN 0 - e ELSE 0), Shift2(den, IF e > 0 THEN e ELSE 0))

RECURSIVE BinaryExponent(_, _, _, _)
\* The e from lo to hi with 2^e <= num / den < 2^(e + 1).
BinaryExponent(num, den, lo, hi) ==
  LET Halved(mid) == IF BelowPower(num, den, mid + 1) THEN BinaryExponent(num, den, lo, mid)
                     ELSE BinaryExponent(num, den, mid + 1, hi)
  IN IF lo = hi THEN lo ELSE Halved(lo + (hi - lo) \div 2)

RECURSIVE Quotient(_, _, _)
\* Long division by d: c more bits of the quotient x.q after the remainder
\* x.r; all of them are zero once nothing remains.
Quotient(x, d, c) ==
  LET Bit(q2, r2) == IF BigLess(r2, d) THEN [q |-> q2, r |-> r2]
                     ELSE [q |-> [q2 EXCEPT ![1] = @ + 1], r |-> BigMinus(r2, d)]
  IN IF c = 0 THEN x
     ELSE IF x.r = <<>> THEN [q |-> Shift2(x.q, c), r |-> <<>>]
     ELSE IF c = 1 THEN Bit(BigTimes(x.q, 2), BigTimes(x.r, 2))
     ELSE Quotient(Quotient(x, d, c \div 2), d, c - c \div 2)

\* The double nearest to num / den, a quotient of positive numbers between
\* 2^-1080 and 2^1027, ties to the even mantissa: the record of its
\* mantissa m, below 2^53, and of the number f of fraction bits, so that its
\* value is m / 2^f. Below the normal range f stays 1074 and the mantissa is
\* shorter, down to zero; a quotient that rounds to 2^1024 or more is
\* returned as 2^1024, m = 1 and f = -1024.
NearestDouble(num, den) ==
  LET \* a mantissa that rounding carried to 2^53 is 2^52 one binade up
      Carried(m, f) == IF m = <<992, 5474, 1992, 9007>>
                       THEN [m |-> <<496, 2737, 5996, 4503>>, f |-> f - 1]
                       ELSE [m |-> m, f |-> f]
      \* the quotient q with remainder r2 / 2 rounded to the nearest
      \* integer, ties to even
      Nearest(q, r2, d) ==
        IF BigLess(d, r2) \/ (r2 = d /\ q # <<>> /\ q[1] % 2 = 1) THEN BigPlus(q, <<1>>)
        ELSE q
      Rounded53(x, d, f) == Carried(Nearest(x.q, BigTimes(x.r, 2), d), f)
      \* the bits of the quotient n / d * 2^e, with n / d from 1 to below
      \* 2, that a double keeps: 53, fewer below 2^-1022
      Kept(n, d, e, bits) ==
        IF e > 1023 THEN [m |-> <<1>>, f |-> -1024]
        ELSE IF bits < 0 THEN [m |-> <<>>, f |-> 1074]
        ELSE Rounded53(IF bits = 0 THEN [q |-> <<>>, r |-> n]
                       ELSE Quotient([q |-> <<1>>, r |-> BigMinus(n, d)], d, bits - 1),
                       IF bits = 0 THEN BigTimes(d, 2) ELSE d,
                       IF bits = 0 THEN 1074 ELSE bits - 1 - e)
      Scaled(e) == Kept(Shift2(num, IF e < 0 THEN 0 - e ELSE 0),
                        Shift2(den, IF e > 0 THEN e ELSE 0),
                        e, IF e >= -1022 THEN 53 ELSE e + 1075)
      Capped(x) == IF x.f < -971 THEN [m |-> <<1>>, f |-> -1024] ELSE x
  IN Capped(Scaled(BinaryExponent(num, den, -1080, 1027)))

\* t / s reaches 1: t >= s when the bound counts, t > s when it does not.
Reaches(t, s, counts) == IF counts THEN ~BigLess(t, s) ELSE BigLess(s, t)

RECURSIVE Generate(_, _, _, _, _)
\* The digits of r / s, what is left of a double: mp / s and mm / s are the
\* distances to the midpoints above and below it, which count as the double
\* when its mantissa is even. A digit d is the last one when the remainder
\* is within mm of its decimal (low) or within mp of the next one (high);
\* of the two decimals the nearer is taken.
Generate(r, s, mp, mm, even) ==
  LET Ends(d, rem, low, high) ==
        IF ~low /\ ~high
        THEN <<Digits[d + 1]>>
               \o Generate(BigTimes(rem, 10), s, BigTimes(mp, 10), BigTimes(mm, 10), even)
        ELSE IF low /\ (~high \/ BigLess(BigTimes(rem, 2), s)) THEN <<Digits[d + 1]>>
        ELSE <<Digits[d + 2]>>
      Left(d, rem) == Ends(d, rem, Reaches(mm, rem, even), Reaches(BigPlus(rem, mp), s, even))
      Digit(d) == Left(d, IF d = 0 THEN r ELSE BigMinus(r, BigTimes(s, d)))
  IN Digit(Cardinality({j \in 1..9 : ~BigLess(r, BigTimes(s, j))}))

RECURSIVE ScaledDigits(_, _, _, _, _, _)
\* The digits of r / s after the point k is moved to the least power of ten
\* that the upper midpoint (r + mp) / s does not reach.
ScaledDigits(r, s, mp, mm, k, even) ==
  LET Tenfold(r10, mp10, mm10) ==
        IF Reaches(BigPlus(r10, mp10), s, even)
        THEN [digits |-> Generate(r10, s, mp10, mm10, even), point |-> k]
        ELSE ScaledDigits(r10, s, mp10, mm10, k - 1, even)
  IN IF Reaches(BigPlus(r, mp), s, even)
     THEN ScaledDigits(r, BigTimes(s, 10), mp, mm, k + 1, even)
     ELSE Tenfold(BigTimes(r, 10), BigTimes(mp, 10), BigTimes(mm, 10))

\* Number::toString's digits of a positive finite double x: the shortest
\* decimal that lies nearer to x than to any other double (a decimal half
\* way to a neighbour counts when the mantissa of x is even, since the tie
\* then rounds to x), and of the decimals of that length the one nearest to
\* x. The result is the digits d1 .. dn and the position of the decimal
\* point: the decimal is 0.d1 .. dn times 10^point. near is a first guess of
\* the point.
Shortest(x, near) ==
  LET \* the double below x is half as far as the one above when x is a
      \* power of two above the subnormal range
      narrow == IF x.m = <<496, 2737, 5996, 4503>> /\ x.f < 1074 THEN 1 ELSE 0
      up == IF x.f < 0 THEN 0 - x.f ELSE 0
      down == IF x.f > 0 THEN x.f ELSE 0
      above == IF near > 0 THEN near ELSE 0
      below == IF near < 0 THEN 0 - near ELSE 0
  IN ScaledDigits(Shift10(Shift2(x.m, up + 1 + narrow), below),
                  Shift10(Shift2(<<1>>, down + 1 + narrow), above),
                  Shift10(Shift2(<<1>>, up + narrow), below),
                  Shift10(Shift2(<<1>>, up), below),
                  near, x.m[1] % 2 = 0)

\* The number a literal denotes: all are the digits of its integer and
\* fraction parts, point the position of the decimal point among them after
\* the exponent is applied. JSON.parse returns the double nearest to the
\* decimal (Infinity from 2^1024 - 2^970 on, zero up to 2^-1075), here in
\* the digits Number::toString gives it. A decimal of at most 15 significant
\* digits in the normal range is itself the shortest decimal of its nearest
\* double (two decimals of 15 digits never share a double there); a decimal
\* of 10^309 or more is beyond every double, one below 10^-323 is below
\* half the least double.
NumberOf(neg, all, point) ==
  LET z == LeadingZeros(all)
      ds == DropTrailingZeros(SubSeq(all, z + 1, Len(all)))
      pt == point - z
      k == Len(ds)
      digit(j) == IF j >= 1 THEN DigitVal(ds[j]) ELSE 0
      big == [i \in 1..((k + 3) \div 4) |->
                digit(k - 4 * i + 4) + 10 * digit(k - 4 * i + 3)
                  + 100 * digit(k - 4 * i + 2) + 1000 * digit(k - 4 * i + 1)] \o <<>>
      Printed(sd) == JNumber(neg, sd.digits, sd.point)
      Double(x) ==
        IF x.m = <<>> THEN JNumber(neg, <<>>, 0)
        ELSE IF x.f = -1024 THEN JNumber(neg, <<"I">>, 0)
        ELSE Printed(Shortest(x, pt))
  IN IF ds = <<>> \/ pt < -323 THEN JNumber(neg, <<>>, 0)
     ELSE IF pt > 309 THEN JNumber(neg, <<"I">>, 0)
     ELSE IF k <= 15 /\ pt > -307 /\ pt < 309 THEN JNumber(neg, ds, pt)
     ELSE Double(NearestDouble(Shift10(big, IF pt > k THEN pt - k ELSE 0),
                               Shift10(<<1>>, IF k > pt THEN k - pt ELSE 0)))

\* A JSON number at position k:
\* -? (0 | [1-9][0-9]*) (. [0-9]+)? ([eE] [+-]? [0-9]+)?
ParseNumber(s, k) ==
  LET neg == s[k] = "-"
      i == IF neg THEN k + 1 ELSE k
      \* the literal read up to its end: its integer part ends before
      \* intEnd, its fraction before fracEnd, the digits of its exponent run
      \* from expStart to before expEnd, minus being the exponent's sign
      \* (no fraction: fracEnd = intEnd; no exponent: expEnd = fracEnd)
      End(intEnd, fracEnd, expStart, expEnd, minus) ==
        [ok |-> fracEnd # intEnd + 1 /\ expEnd # expStart, intEnd |-> intEnd,
         fracEnd |-> fracEnd, expStart |-> expStart, expEnd |-> expEnd, minus |-> minus]
      \* the exponent, if any, after a fraction that ends before fracEnd
      Exponent(intEnd, fracEnd) ==
        IF fracEnd <= Len(s) /\ s[fracEnd] \in {"e", "E"}
        THEN IF fracEnd + 1 <= Len(s) /\ s[fracEnd + 1] \in {"+", "-"}
             THEN End(intEnd, fracEnd, fracEnd + 2, DigitRun(s, fracEnd + 2),
                      s[fracEnd + 1] = "-")
             ELSE End(intEnd, fracEnd, fracEnd + 1, DigitRun(s, fracEnd + 1), FALSE)
        ELSE End(intEnd, fracEnd, fracEnd + 1, fracEnd, FALSE)
      \* the fraction, if any, after an integer part that ends before intEnd
      Fraction(intEnd) ==
        IF intEnd <= Len(s) /\ s[intEnd] = "."
        THEN Exponent(intEnd, DigitRun(s, intEnd + 1))
        ELSE Exponent(intEnd, intEnd)
      \* the number of the literal e, its exponent being mag. Before the
      \* exponent moves it, the decimal point lies d digits after the
      \* literal's first significant digit. An exponent that moves it 400
      \* digits or more beyond that digit, to either side, makes a number
      \* beyond every double or below half the least one, as a point just
      \* 400 digits away does: so the exponent is applied exactly whatever
      \* its length (a text has fewer than 2^30 characters, hence d lies
      \* within 2^30 of zero and an exponent of 2 * 10^9 or more always moves
      \* the point that far).
      Denoted(e, mag) ==
        LET all == SubSeq(s, i, e.intEnd - 1) \o SubSeq(s, e.intEnd + 1, e.fracEnd - 1)
            z == LeadingZeros(all)
            d == e.intEnd - i - z
        IN NumberOf(neg, all,
                    IF e.minus
                    THEN (IF mag >= d + 400 THEN z - 400 ELSE e.intEnd - i - mag)
                    ELSE (IF mag >= 400 - d THEN z + 400 ELSE e.intEnd - i + mag))
      Read(e) ==
        IF ~e.ok THEN SyntaxError
        ELSE LET digits == SubSeq(s, e.expStart, e.expEnd - 1)
             IN Parsed(Denoted(e, NatOf(SubSeq(digits, LeadingZeros(digits) + 1, Len(digits)), 0)),
                       e.expEnd)
  IN IF i > Len(s) \/ ~IsDigit(s[i]) THEN SyntaxError
     ELSE Read(Fraction(IF s[i] = "0" THEN i + 1 ELSE DigitRun(s, i)))

\* The literal word (null, true, false) at position k.
ParseLiteral(s, k, word, v) ==
  IF k + Len(word) - 1 <= Len(s) /\ SubSeq(s, k, k + Len(word) - 1) = word
  THEN Parsed(v, k + Len(word))
  ELSE SyntaxError

RECURSIVE ParseValue(_, _)
RECURSIVE ParseElements(_, _, _)
RECURSIVE ParseMembers(_, _, _)

\* A JSON value from position k0 on.
ParseValue(s, k0) ==
  LET k == SkipWs(s, k0) IN
  IF k > Len(s) THEN SyntaxError
  ELSE IF s[k] = "["
       THEN (LET j == SkipWs(s, k + 1) IN
             IF j <= Len(s) /\ s[j] = "]" THEN Parsed(JArray(<<>>), j + 1)
             ELSE ParseElements(s, k + 1, <<>>))
  ELSE IF s[k] = "{"
       THEN (LET j == SkipWs(s, k + 1) IN
             IF j <= Len(s) /\ s[j] = "}" THEN Parsed(JObject(<<>>), j + 1)
             ELSE ParseMembers(s, k + 1, <<>>))
  ELSE IF s[k] = "\"" THEN ParseString(s, k + 1, <<>>)
  ELSE IF IsDigit(s[k]) \/ s[k] = "-" THEN ParseNumber(s, k)
  ELSE IF s[k] = "n" THEN ParseLiteral(s, k, <<"n", "u", "l", "l">>, JNull)
  ELSE IF s[k] = "t" THEN ParseLiteral(s, k, <<"t", "r", "u", "e">>, JBool(TRUE))
  ELSE IF s[k] = "f" THEN ParseLiteral(s, k, <<"f", "a", "l", "s", "e">>, JBool(FALSE))
  ELSE SyntaxError

\* The elements of an array from position k on, acc being those before.
ParseElements(s, k, acc) ==
  LET After(e) ==
        IF ~e.ok THEN SyntaxError
        ELSE LET j == SkipWs(s, e.k) IN
             IF j > Len(s) THEN SyntaxError
             ELSE IF s[j] = "," THEN ParseElements(s, j + 1, Append(acc, e.v))
             ELSE IF s[j] = "]" THEN Parsed(JArray(Append(acc, e.v)), j + 1)
             ELSE SyntaxError
  IN After(ParseValue(s, k))

\* The members of an object from position k on, acc being those before.
ParseMembers(s, k, acc) ==
  LET AfterValue(key, val) ==
        IF ~val.ok THEN SyntaxError
        ELSE LET j == SkipWs(s, val.k)
                 members == Append(acc, [key |-> key.v.s, val |-> val.v])
             IN IF j > Len(s) THEN SyntaxError
                ELSE IF s[j] = "," THEN ParseMembers(s, j + 1, members)
                ELSE IF s[j] = "}" THEN Parsed(JObject(members), j + 1)
                ELSE SyntaxError
      AfterKey(key) ==
        IF ~key.ok THEN SyntaxError
        ELSE LET c == SkipWs(s, key.k) IN
             IF c > Len(s) \/ s[c] # ":" THEN SyntaxError
             ELSE AfterValue(key, ParseValue(s, c + 1))
      q == SkipWs(s, k)
  IN IF q > Len(s) \/ s[q] # "\"" THEN SyntaxError
     ELSE AfterKey(ParseString(s, q + 1, <<>>))

\* JSON.parse(content): one value and nothing but white space after it.
JSONParse(content) ==
  LET Whole(r) == IF r.ok /\ SkipWs(content, r.k) > Len(content) THEN r ELSE SyntaxError
  IN Whole(ParseValue(content, 1))

\* typeof item === 'object': true of objects, arrays and null.
TypeofObject(v) == v.t \in {"object", "array", "null"}

\* item.id: the value of the last member named id, undefined when there is
\* none (and for an array). Reading it from null throws a TypeError.
GetId(v) ==
  LET at == {k \in 1..Len(v.fields) : v.fields[k].key = <<"i", "d">>} IN
  IF at = {} THEN JUndefined
  ELSE v.fields[CHOOSE k \in at : \A j \in at : j <= k].val

\* Faulty variant: a conversion that forgets .id and keeps the record.
ItemValueWhole(v) == v

\* item => typeof item === 'object' ? item.id : item
ItemValue(v) == IF TypeofObject(v) THEN GetId(v) ELSE v
ItemThrows(v) == v.t = "null"

\* Number::toString of a number: its decimal digits, in positional notation
\* when the decimal point lies from 6 places before to 21 places after the
\* first digit, in exponent notation otherwise.
NumToStr(v) ==
  LET neg == v.s # <<>> /\ v.s[1] = "-"
      ds == IF neg THEN Tail(v.s) ELSE v.s
      k == Len(ds)
      n == v.n
      sign == IF neg THEN <<"-">> ELSE <<>>
      zeros(m) == [j \in 1..m |-> "0"]
      e == n - 1
      expo == <<"e", IF e < 0 THEN "-" ELSE "+">> \o NatToStr(IF e < 0 THEN 0 - e ELSE e)
  IN IF ds = <<>> THEN <<"0">>
     ELSE IF ds = <<"I">> THEN sign \o <<"I", "n", "f", "i", "n", "i", "t", "y">>
     ELSE IF k <= n /\ n <= 21 THEN sign \o ds \o zeros(n - k)
     ELSE IF 0 < n /\ n <= 21
          THEN sign \o SubSeq(ds, 1, n) \o <<".">> \o SubSeq(ds, n + 1, k)
     ELSE IF -6 < n /\ n <= 0 THEN sign \o <<"0", ".">> \o zeros(0 - n) \o ds
     ELSE IF k = 1 THEN sign \o ds \o expo
     ELSE sign \o <<ds[1], ".">> \o SubSeq(ds, 2, k) \o expo

RECURSIVE NestedBeyond(_, _)
\* v is an array nested more than n deep. The join of an array calls String
\* on each element, and so itself on each element that is an array: it
\* uses the engine's stack by the depth.
NestedBeyond(v, n) ==
  v.t = "array" /\ (n = 0 \/ \E k \in 1..Len(v.items) : NestedBeyond(v.items[k], n - 1))

RECURSIVE StrThrows(_)
\* String(v) throws a TypeError, whatever the stack: v is an object with a
\* member named toString (which JSON cannot make callable, and which hides
\* Object.prototype.toString), or an array that holds such an object.
StrThrows(v) ==
  \/ v.t = "object" /\ \E k \in 1..Len(v.fields) :
                         v.fields[k].key = <<"t", "o", "S", "t", "r", "i", "n", "g">>
  \/ v.t = "array" /\ \E k \in 1..Len(v.items) : StrThrows(v.items[k])

RECURSIVE JoinStr(_)
RECURSIVE JoinWith(_, _, _)
\* The text Array.prototype.join puts for one element: nothing for null and
\* undefined, String(element) otherwise.
JoinStr(v) ==
  CASE v.t = "string" -> v.s
    [] v.t = "number" -> NumToStr(v)
    [] v.t = "boolean" -> (IF v.n = 1 THEN <<"t", "r", "u", "e">>
                           ELSE <<"f", "a", "l", "s", "e">>)
    [] v.t = "object" -> <<"[", "o", "b", "j", "e", "c", "t", " ", "O", "b", "j", "e", "c", "t", "]">>
    [] v.t = "array" -> JoinWith(v.items, <<",">>, 1)
    [] OTHER -> <<>>

\* items.join(sep), from position k on.
JoinWith(items, sep, k) ==
  IF k > Len(items) THEN <<>>
  ELSE IF k = Len(items) THEN JoinStr(items[k])
  ELSE JoinStr(items[k]) \o sep \o JoinWith(items, sep, k + 1)

\* reader.onload: the texts the handler can put in the input for a file
\* whose text is content. The try block replaces content only when
\* JSON.parse returned an array and the conversion of every element went
\* through. Where an id is an array nested more than 2000 deep, its join
\* may use up the stack (RangeError, caught like every other fault) or not,
\* by the stack the build gives the engine: either text can result.
ImportText(content) ==
  LET Outcomes(p) ==
        IF /\ p.ok /\ p.v.t = "array"
           /\ \A i \in 1..Len(p.v.items) :
                ~ItemThrows(p.v.items[i]) /\ ~StrThrows(ItemValue(p.v.items[i]))
        THEN {JoinWith([i \in 1..Len(p.v.items) |-> ItemValue(p.v.items[i])], <<"\n">>, 1)}
               \cup (IF \E i \in 1..Len(p.v.items) :
                           NestedBeyond(ItemValue(p.v.items[i]), 2000)
                     THEN {content} ELSE {})
        ELSE {content}
  IN Outcomes(JSONParse(content))

\* The texts of the files the operator picks: arrays of strings, of
\* numbers and of records, a record without an id, an array holding null, a
\* lone record, a lone number, an empty array, an array of a boolean, a
\* fraction and a negative number with an exponent, a string written with
\* escapes, a record whose id cannot be turned into a string, a record with
\* two ids, a plain list of ids, and an array of numbers with long exponents:
\* [0.0...01e100000,-2E-100000,0.001e+00000000005], the first with 9999
\* zeros between the point and the 1.
Files ==
  { <<"[", "]">>,
    <<"[", "\"", "1", "2", "\"", ",", "\"", "7", "\"", "]">>,
    <<"[", "1", "2", ",", " ", "7", "]">>,
    <<"[", "{", "\"", "i", "d", "\"", ":", "\"", "1", "2", "\"", ",", "\"", "t", "i", "t", "l", "e", "\"", ":", "\"", "x", "\"", "}", ",", "{", "\"", "i", "d", "\"", ":", "2", "}", "]">>,
    <<"[", "{", "\"", "t", "i", "t", "l", "e", "\"", ":", "\"", "x", "\"", "}", ",", "\"", "2", "\"", "]">>,
    <<"[", "\"", "1", "2", "\"", ",", "n", "u", "l", "l", "]">>,
    <<"{", "\"", "i", "d", "\"", ":", "\"", "1", "2", "\"", "}">>,
    <<"1", "2">>,
    <<"[", "t", "r", "u", "e", ",", "1", ".", "5", ",", "-", "2", "e", "1", "]">>,
    <<"[", "\"", "\\", "u", "0", "0", "3", "1", "\\", "/", "2", "\"", "]">>,
    <<"[", "{", "\"", "i", "d", "\"", ":", "{", "\"", "t", "o", "S", "t", "r", "i", "n", "g", "\"", ":", "1", "}", "}", "]">>,
    <<"[", "{", "\"", "i", "d", "\"", ":", "[", "1", ",", "[", "2", ",", "n", "u", "l", "l", "]", "]", ",", "\"", "i", "d", "\"", ":", "0", ".", "5", "E", "-", "6", "}", "]">>,
    <<"1", "2", "\n", "#", "x", "\n", "2">>,
    (<<"[", "0", ".">> \o [j \in 1..9999 |-> "0"]
      \o <<"1", "e", "1", "0", "0", "0", "0", "0", ",", "-", "2", "E", "-", "1", "0", "0", "0", "0", "0", ",", "0", ".", "0", "0", "1", "e", "+", "0", "0", "0", "0", "0", "0", "0", "0", "0", "0", "5", "]">>) }

\* The texts the clipboard holds when it is read.
ClipTexts ==
  { <<"\t", "\f", "7", " ", "\n", " ", "#", "c", "\n", "U+00A0", " ", "\n", "2", "#", "3",
      "\n", "1", "\n">>,
    <<>> }

\* ------------------------------------------------------------------- state
\* Owners of store calls: the requests the outside world sends (two, so that
\* batches can overlap) and the delete runs of the manual page.
Reqs == {1, 2}
\* The invocations of the delete click handler that pass confirm(): the
\* first two, which can be alive at once, since the page has no guard of its
\* own against a click during a run.
UIRuns == {0, -1}
Owners == UIRuns \cup Reqs

VARIABLES
  store,     \* the native bookmark store: its nodes, in store order
  inflight,  \* store calls issued and not yet consumed by their batch
  issued,    \* per owner, the store calls of its (latest) batch, in issue order
  settled,   \* per owner, the outcomes of those calls, in the order they settled
  chan,      \* per request: "none" (not sent yet), "oneshot" or "port"
  req,       \* per request: the message
  pc,        \* per request: "idle", "await", "settled" or "done"
  idx,       \* per request: number of items whose store call was consumed
  results,   \* per request: the results array of its batch function
  fate,      \* per request: how its batch function's promise settled
  open,      \* per request: the one-shot response channel is still open
  resp,      \* per request: the responses the caller has received
  text,      \* page: bookmarkIdsInput.value
  disabled,  \* page: the disabled flag of each control
  count,     \* page: the number shown in countDisplay
  progress,  \* page: the progress bar (shown, width in percent, text)
  log,       \* page: resultsDiv (shown, lines)
  alerted,   \* page: the last dialog shown to the operator (an alert, or a
             \* confirm with the operator's answer)
  run,       \* page: per invocation of the delete click handler, "idle"
             \* before it starts, "await" with the locals of the handler and
             \* the input text it found at its start while it is in its
             \* loop, "done" once it has returned
  pastes,    \* page: navigator.clipboard.readText() promises not yet settled
  reads      \* page: texts of the files a FileReader is still reading

routerVars == <<chan, req, pc, idx, results, fate, open, resp>>
pageVars == <<text, disabled, count, progress, log, alerted, run, pastes, reads>>
storeVars == <<store, inflight, issued, settled>>
vars == <<storeVars, routerVars, pageVars>>

Controls == {"delete", "load", "paste", "clear", "input"}
IdleRun ==
  [pc |-> "idle", ids |-> <<>>, i |-> 0, successCount |-> 0, errorCount |-> 0,
   textAtStart |-> <<>>]

Pending == [kind |-> "pending", err |-> NoError]
Resolved == [kind |-> "resolved", err |-> NoError]
Rejected(err) == [kind |-> "rejected", err |-> err]

Init ==
  /\ store = InitStore
  /\ inflight = {}
  /\ issued = [o \in Owners |-> <<>>]
  /\ settled = [o \in Owners |-> <<>>]
  /\ chan = [r \in Reqs |-> "none"]
  /\ req = [r \in Reqs |-> NoMsg]
  /\ pc = [r \in Reqs |-> "idle"]
  /\ idx = [r \in Reqs |-> 0]
  /\ results = [r \in Reqs |-> <<>>]
  /\ fate = [r \in Reqs |-> Pending]
  /\ open = [r \in Reqs |-> FALSE]
  /\ resp = [r \in Reqs |-> <<>>]
  \* the page after DOMContentLoaded: empty input, updateCount() has run
  /\ text = <<>>
  /\ disabled = [c \in Controls |-> c = "delete"]
  /\ count = 0
  /\ progress = [shown |-> FALSE, width |-> 0, text |-> <<"">>]
  /\ log = [shown |-> FALSE, lines |-> <<>>]
  /\ alerted = "none"
  /\ run = [u \in UIRuns |-> IdleRun]
  /\ pastes = 0
  /\ reads = {}

\* ------------------------------------------------------------ batch loops
\* The store primitive a batch action drives and the field its items are in.
\* Faulty variant: a lookup loop pasted from the delete loop with its store call left in.
BatchOpAlwaysRemove(action) == "remove"

\* The store call a batch function makes per item: chrome.bookmarks.remove
\* in deleteBookmarks, chrome.bookmarks.search in findBookmarksByUrl.
BatchOp(action) == IF action = "deleteBookmarks" THEN "remove" ELSE "search"
Field(m) == IF m.action = "deleteBookmarks" THEN m.bookmarkIds ELSE m.urls
Items(m) == IterItems(Field(m))

\* Faulty variant: a loop that hands the item to the store as it came, without String(id).
CallArgRaw(op, item) == item

\* The argument of the store call for one item: remove(String(id)) gets a
\* string, search({url}) gets the item as it came.
CallArg(op, item) == IF op = "remove" THEN StrV(ToStr(item)) ELSE item

\* Faulty variant: a loop that does not await: every remaining item's call goes out at once.
CallsToIssueAll(owner, op, items, k) ==
  [j \in 1..(Len(items) - k + 1) |->
     Call(owner, k + j - 1, op, CallArg(op, items[k + j - 1]))]

\* The store calls one turn of the loop issues when it reaches item k:
\* `await chrome.bookmarks.remove(idStr)` / `await chrome.bookmarks.search`.
CallsToIssue(owner, op, items, k) == <<Call(owner, k, op, CallArg(op, items[k]))>>

Range(f) == {f[i] : i \in DOMAIN f}
Sig(c) == [op |-> c.op, arg |-> c.arg]

\* Faulty variant: a lookup loop whose catch records a faulted search as "no bookmarks".
EntryForSearchFaultEmpty(op, item, c) ==
  IF op = "remove"
  THEN (IF c.st = "ok" THEN DelEntry(c.arg.s, TRUE, NoError)
        ELSE DelEntry(ToStr(item), FALSE, c.err))
  ELSE FindEntry(item, TRUE, c.matches, NoError)

\* Faulty variant: a delete loop that takes "not found" for a success, since the bookmark is gone.
EntryForNotFoundOk(op, item, c) ==
  IF op = "remove"
  THEN (IF c.st = "ok" \/ c.err = NotFoundMsg THEN DelEntry(ToStr(item), TRUE, NoError)
        ELSE DelEntry(ToStr(item), FALSE, c.err))
  ELSE (IF c.st = "ok" THEN FindEntry(item, TRUE, c.matches, NoError)
        ELSE FindEntry(item, FALSE, <<>>, c.err))

\* The result entry the loop pushes for item `item` once its call c settled.
EntryFor(op, item, c) ==
  IF op = "remove"
  THEN (IF c.st = "ok" THEN DelEntry(c.arg.s, TRUE, NoError)
        ELSE DelEntry(ToStr(item), FALSE, c.err))
  ELSE (IF c.st = "ok" THEN FindEntry(item, TRUE, c.matches, NoError)
        ELSE FindEntry(item, FALSE, <<>>, c.err))

\* Faulty variant: a loop whose catch swallows the fault without recording an entry.
PushEntryDropFailed(rs, op, item, c) ==
  IF c.st = "ok" THEN Append(rs, EntryFor(op, item, c)) ELSE rs

\* Faulty variant: a results array declared at module level, so an invocation
\* that starts while another one runs pushes onto that one's entries.
PushEntryShared(rs, op, item, c) ==
  Append(IF rs = <<>> THEN results[1] ELSE rs, EntryFor(op, item, c))

\* results.push(...) for item `item` once its call c settled, in the try
\* (success) or in the catch (fault).
PushEntry(rs, op, item, c) == Append(rs, EntryFor(op, item, c))

\* Faulty variant: a loop whose try/catch is around the loop: the first fault ends it.
MoreItemsStopOnFault(k, n, c) == k < n /\ c.st = "ok"

\* The for..of loop goes on to the next item after item k of n, whatever
\* the outcome of its call c: the try/catch is inside the loop.
MoreItems(k, n, c) == k < n

\* deleteBookmarks(p) / findBookmarksByUrl(p) up to its first await: a
\* payload that is not iterable rejects the promise, an empty one resolves
\* it with [], otherwise the call for the first item is issued.
StartBatch(r, op, p) ==
  IF ~Iterable(p)
  THEN /\ pc' = [pc EXCEPT ![r] = "settled"]
       /\ fate' = [fate EXCEPT ![r] = Rejected(NotIterableMsg(op))]
       /\ UNCHANGED <<inflight, issued>>
  ELSE IF Len(IterItems(p)) = 0
  THEN /\ pc' = [pc EXCEPT ![r] = "settled"]
       /\ fate' = [fate EXCEPT ![r] = Resolved]
       /\ UNCHANGED <<inflight, issued>>
  ELSE LET cs == CallsToIssue(r, op, IterItems(p), 1) IN
       /\ pc' = [pc EXCEPT ![r] = "await"]
       /\ inflight' = inflight \cup Range(cs)
       /\ issued' = [issued EXCEPT ![r] = @ \o [i \in 1..Len(cs) |-> Sig(cs[i])]]
       /\ UNCHANGED fate

\* The store settles one pending call.
StoreResolve ==
  \E c \in inflight :
    /\ c.st = "pending"
    /\ \E o \in SettleOutcomes(c, store) :
         /\ inflight' = (inflight \ {c}) \cup {o[1]}
         /\ store' = o[2]
         /\ settled' = [settled EXCEPT ![c.owner] =
                          Append(@, [k |-> c.k, st |-> o[1].st, err |-> o[1].err,
                                     matches |-> o[1].matches])]
    /\ UNCHANGED <<issued, routerVars, pageVars>>

\* The loop of request r resumes after its await: it pushes the entry of the
\* settled call and either issues the call of the next item or returns.
Continue(r) ==
  /\ pc[r] = "await"
  /\ \E c \in inflight :
       /\ c.owner = r /\ c.k = idx[r] + 1 /\ c.st # "pending"
       /\ LET op == BatchOp(req[r].action)
              items == Items(req[r])
          IN /\ results' = [results EXCEPT ![r] = PushEntry(@, op, items[c.k], c)]
             /\ idx' = [idx EXCEPT ![r] = c.k]
             /\ IF MoreItems(c.k, Len(items), c)
                THEN LET cs == CallsToIssue(r, op, items, c.k + 1) IN
                     /\ inflight' = (inflight \ {c}) \cup Range(cs)
                     /\ issued' = [issued EXCEPT ![r] = @ \o [i \in 1..Len(cs) |-> Sig(cs[i])]]
                     /\ UNCHANGED <<pc, fate>>
                ELSE /\ inflight' = inflight \ {c}
                     /\ pc' = [pc EXCEPT ![r] = "settled"]
                     /\ fate' = [fate EXCEPT ![r] = Resolved]
                     /\ UNCHANGED issued
  /\ UNCHANGED <<store, settled, chan, req, open, resp, pageVars>>

\* ----------------------------------------------------------- the router
\* Faulty variant: a listener that returns nothing: the channel closes when it returns.
KeepsChannelOpenNever(action) == FALSE

\* What the onMessageExternal listener returns for an action: true keeps the
\* one-shot response channel open after the listener has returned.
KeepsChannelOpen(action) ==
  action \in {"deleteBookmarks", "ping", "findBookmarksByUrl"}

\* Faulty variant: an envelope that reports failure as soon as one item failed.
EnvelopeAllOrNothing(f, rs) ==
  IF f.kind = "resolved" /\ \A i \in 1..Len(rs) : "error" \notin rs[i].keys
  THEN OkResults(rs)
  ELSE Failure(IF f.kind = "resolved" THEN "some items failed" ELSE f.err)

\* The envelope the .then / .catch (or try / catch) callback builds.
EnvelopeOf(f, rs) == IF f.kind = "resolved" THEN OkResults(rs) ELSE Failure(f.err)

\* A request that is the next one to be sent.
Fresh(r) == chan[r] = "none" /\ \A q \in Reqs : q < r => chan[q] # "none"

\* Faulty variant: an if-chain with a final else that acknowledges whatever it is sent.
RouteDefaultPing(action) ==
  IF action = "deleteBookmarks" THEN "delete"
  ELSE IF action = "findBookmarksByUrl" THEN "find"
  ELSE "ping"

\* Faulty variant: an if-chain that tests for the bookmarkIds payload before the action tag.
RoutePingAsDelete(action) ==
  IF action \in {"deleteBookmarks", "ping"} THEN "delete"
  ELSE IF action = "findBookmarksByUrl" THEN "find"
  ELSE "drop"

\* The branch the if-chain of the onMessageExternal listener takes.
Route(action) ==
  IF action = "deleteBookmarks" THEN "delete"
  ELSE IF action = "ping" THEN "ping"
  ELSE IF action = "findBookmarksByUrl" THEN "find"
  ELSE "drop"

\* The branch the port.onMessage listener takes: it knows one action.
PortRoute(action) == IF action = "deleteBookmarks" THEN "delete" ELSE "drop"

\* The body of the chrome.runtime.onMessageExternal listener, run for
\* message m as request r.
ExternalListener(r, m) ==
  /\ Fresh(r)
  /\ chan' = [chan EXCEPT ![r] = "oneshot"]
  /\ req' = [req EXCEPT ![r] = m]
  /\ IF Route(m.action) = "delete"
     THEN /\ StartBatch(r, "remove", m.bookmarkIds)
          /\ open' = [open EXCEPT ![r] = KeepsChannelOpen(m.action)]
          /\ UNCHANGED resp
     ELSE IF Route(m.action) = "ping"
     THEN /\ resp' = [resp EXCEPT ![r] = Append(@, Pong)]
          /\ open' = [open EXCEPT ![r] = FALSE]
          /\ pc' = [pc EXCEPT ![r] = "done"]
          /\ UNCHANGED <<inflight, issued, fate>>
     ELSE IF Route(m.action) = "find"
     THEN /\ StartBatch(r, "search", m.urls)
          /\ open' = [open EXCEPT ![r] = KeepsChannelOpen(m.action)]
          /\ UNCHANGED resp
     ELSE /\ pc' = [pc EXCEPT ![r] = "done"]
          /\ open' = [open EXCEPT ![r] = KeepsChannelOpen(m.action)]
          /\ UNCHANGED <<inflight, issued, fate, resp>>
  /\ UNCHANGED <<store, settled, idx, results, pageVars>>

\* chrome.runtime.onMessageExternal listener, run for some message.
OnMessageExternal(r) == \E m \in Messages : ExternalListener(r, m)

\* The body of the port.onMessage listener of a connection accepted by
\* onConnectExternal, run for message m as request r.
PortListener(r, m) ==
  /\ Fresh(r)
  /\ chan' = [chan EXCEPT ![r] = "port"]
  /\ req' = [req EXCEPT ![r] = m]
  /\ IF PortRoute(m.action) = "delete"
     THEN StartBatch(r, "remove", m.bookmarkIds)
     ELSE /\ pc' = [pc EXCEPT ![r] = "done"]
          /\ UNCHANGED <<inflight, issued, fate>>
  /\ UNCHANGED <<store, settled, idx, results, open, resp, pageVars>>

\* port.onMessage listener, run for some message.
OnPortMessage(r) == \E m \in Messages : PortListener(r, m)

\* The promise of the batch function has settled: the .then / .catch callback
\* (one-shot) or the rest of the try / catch (port) sends the envelope. A
\* sendResponse on a closed one-shot channel is dropped.
Respond(r) ==
  /\ pc[r] = "settled"
  /\ pc' = [pc EXCEPT ![r] = "done"]
  /\ LET env == EnvelopeOf(fate[r], results[r]) IN
     IF chan[r] = "port"
     THEN /\ resp' = [resp EXCEPT ![r] = Append(@, env)]
          /\ UNCHANGED open
     ELSE /\ resp' = [resp EXCEPT ![r] = IF open[r] THEN Append(@, env) ELSE @]
          /\ open' = [open EXCEPT ![r] = FALSE]
  /\ UNCHANGED <<storeVars, chan, req, idx, results, fate, pageVars>>

\* --------------------------------------------------------------- the page
\* updateCount(): shows the number of ids and enables the delete button
\* exactly when there is at least one.
UpdateCount(t, dis) ==
  [count |-> Len(GetIds(t)),
   disabled |-> [dis EXCEPT !["delete"] = (Len(GetIds(t)) = 0)]]

\* addResult(success, message): one more line in resultsDiv.
AddResult(lines, success, message) ==
  Append(lines, [cls |-> IF success THEN "success" ELSE "error",
                 mark |-> IF success THEN "check" ELSE "cross",
                 message |-> message])

Deleted(id) == [kind |-> "Deleted bookmark ID", id |-> id, err |-> NoError, n |-> 0]
FailedLine(id, err) == [kind |-> "Failed ID", id |-> id, err |-> err, n |-> 0]
Summary(n) == [kind |-> "deleted and will sync", id |-> <<>>, err |-> NoError, n |-> n]

Deleting(k, total) == <<"Deleting", k, total>>
Complete(ok, bad) == <<"Complete", ok, bad>>

\* 'input' event of the text field: the operator replaces its content.
TypeText ==
  \E t \in Texts :
    /\ ~disabled["input"]
    /\ t # text
    /\ text' = t
    /\ count' = UpdateCount(t, disabled).count
    /\ disabled' = UpdateCount(t, disabled).disabled
    /\ UNCHANGED <<storeVars, routerVars, progress, log, alerted, run, pastes, reads>>

\* Click on the clear button.
ClearClick ==
  /\ ~disabled["clear"]
  /\ text' = <<>>
  /\ log' = [shown |-> FALSE, lines |-> <<>>]
  /\ progress' = [progress EXCEPT !.shown = FALSE, !.width = 0]
  /\ count' = UpdateCount(<<>>, disabled).count
  /\ disabled' = UpdateCount(<<>>, disabled).disabled
  /\ UNCHANGED <<storeVars, routerVars, alerted, run, pastes, reads>>

\* Click on the delete button, up to the first await of the handler: no ids
\* alerts and returns; a declined confirm() returns; otherwise the controls
\* are disabled and the store call of the first id is issued. A confirmed
\* click runs as invocation u of the handler, which must not have started.
DeleteClick(u) ==
  /\ ~disabled["delete"]
  /\ LET ids == GetIds(text) IN
     IF Len(ids) = 0
     THEN /\ alerted' = "No bookmark IDs to delete."
          /\ UNCHANGED <<inflight, issued, settled, text, disabled, count, progress, log, run>>
     ELSE \E confirmed \in BOOLEAN :
          IF ~confirmed
          THEN /\ alerted' = "confirm: cancelled"
               /\ UNCHANGED <<inflight, issued, settled, text, disabled, count, progress,
                              log, run>>
          ELSE LET items == [k \in 1..Len(ids) |-> StrV(ids[k])]
                   cs == CallsToIssue(u, "remove", items, 1)
               IN /\ run[u].pc = "idle"
                  /\ disabled' = [c \in Controls |-> TRUE]
                  /\ log' = [shown |-> TRUE, lines |-> <<>>]
                  /\ progress' = [shown |-> TRUE, width |-> Percent(1, Len(ids)),
                                  text |-> Deleting(1, Len(ids))]
                  /\ run' = [run EXCEPT ![u] = [pc |-> "await", ids |-> ids, i |-> 0,
                                                successCount |-> 0, errorCount |-> 0,
                                                textAtStart |-> text]]
                  /\ inflight' = inflight \cup Range(cs)
                  /\ issued' = [issued EXCEPT ![u] = [i \in 1..Len(cs) |-> Sig(cs[i])]]
                  /\ settled' = [settled EXCEPT ![u] = <<>>]
                  /\ alerted' = "confirm: ok"
                  /\ UNCHANGED <<text, count>>
  /\ UNCHANGED <<store, routerVars, pastes, reads>>

\* Faulty variant: a handler that clears the input without calling updateCount().
ControlsAfterRunNoRecount(errorCount) == [x \in Controls |-> FALSE]

\* The disabled flags the click handler leaves behind: it re-enables the five
\* controls and, after a run without failure, clears the input and calls
\* updateCount().
ControlsAfterRun(errorCount) ==
  IF errorCount = 0 THEN UpdateCount(<<>>, [x \in Controls |-> FALSE]).disabled
  ELSE [x \in Controls |-> FALSE]

\* The delete handler resumes after its await: it logs the settled call and
\* either moves to the next id or finishes the run and returns, which ends
\* the invocation and its locals.
RunContinue(u) ==
  /\ run[u].pc = "await"
  /\ \E c \in inflight :
       /\ c.owner = u /\ c.k = run[u].i + 1 /\ c.st # "pending"
       /\ LET ids == run[u].ids
              id == ids[c.k]
              total == Len(ids)
              ok == run[u].successCount + (IF c.st = "ok" THEN 1 ELSE 0)
              bad == run[u].errorCount + (IF c.st = "ok" THEN 0 ELSE 1)
              lines1 == IF c.st = "ok"
                        THEN AddResult(log.lines, TRUE, Deleted(id))
                        ELSE AddResult(log.lines, FALSE, FailedLine(id, c.err))
          IN IF c.k < total
             THEN LET items == [k \in 1..total |-> StrV(ids[k])]
                      cs == CallsToIssue(u, "remove", items, c.k + 1)
                  IN /\ log' = [log EXCEPT !.lines = lines1]
                     /\ progress' = [progress EXCEPT !.width = Percent(c.k + 1, total),
                                                     !.text = Deleting(c.k + 1, total)]
                     /\ run' = [run EXCEPT ![u].i = c.k, ![u].successCount = ok,
                                           ![u].errorCount = bad]
                     /\ inflight' = (inflight \ {c}) \cup Range(cs)
                     /\ issued' = [issued EXCEPT ![u] = @ \o [i \in 1..Len(cs) |-> Sig(cs[i])]]
                     /\ UNCHANGED <<text, disabled, count, settled>>
             ELSE /\ log' = [log EXCEPT !.lines =
                               IF ok > 0 THEN AddResult(lines1, TRUE, Summary(ok)) ELSE lines1]
                  /\ progress' = [progress EXCEPT !.width = 100, !.text = Complete(ok, bad)]
                  /\ run' = [run EXCEPT ![u] = [IdleRun EXCEPT !.pc = "done"]]
                  /\ issued' = [issued EXCEPT ![u] = <<>>]
                  /\ settled' = [settled EXCEPT ![u] = <<>>]
                  /\ inflight' = inflight \ {c}
                  /\ text' = IF bad = 0 THEN <<>> ELSE text
                  /\ count' = IF bad = 0 THEN UpdateCount(<<>>, disabled).count ELSE count
                  /\ disabled' = ControlsAfterRun(bad)
  /\ UNCHANGED <<store, routerVars, alerted, pastes, reads>>

\* 'change' event of the file input, after a click on the load button opened
\* the file dialog: a FileReader starts reading the chosen file.
FileChosenFrom(F) ==
  \E f \in F :
    /\ ~disabled["load"]
    /\ f \notin reads /\ Cardinality(reads) < MaxReads
    /\ reads' = reads \cup {f}
    /\ UNCHANGED <<storeVars, routerVars, text, disabled, count, progress, log, alerted,
                   run, pastes>>


\* reader.onload for a file whose text is f.
FileLoaded ==
  \E f \in reads :
    /\ reads' = reads \ {f}
    /\ text' \in ImportText(f)
    /\ count' = UpdateCount(text', disabled).count
    /\ disabled' = UpdateCount(text', disabled).disabled
    /\ UNCHANGED <<storeVars, routerVars, progress, log, alerted, run, pastes>>

\* Click on the paste button, up to the await of clipboard.readText().
PasteClick ==
  /\ ~disabled["paste"]
  /\ pastes < MaxReads
  /\ pastes' = pastes + 1
  /\ UNCHANGED <<storeVars, routerVars, text, disabled, count, progress, log, alerted,
                 run, reads>>

\* The paste handler resumes with the clipboard's text.
PasteResolve ==
  \E t \in ClipTexts :
    /\ pastes > 0
    /\ pastes' = pastes - 1
    /\ text' = t
    /\ count' = UpdateCount(t, disabled).count
    /\ disabled' = UpdateCount(t, disabled).disabled
    /\ UNCHANGED <<storeVars, routerVars, progress, log, alerted, run, reads>>

\* The paste handler resumes in its catch: the clipboard could not be read.
PasteReject ==
  /\ pastes > 0
  /\ pastes' = pastes - 1
  /\ alerted' = "Could not access clipboard. Please paste manually with Ctrl+V."
  /\ UNCHANGED <<storeVars, routerVars, text, disabled, count, progress, log, run, reads>>

\* One step of the router for request r.
RouterStep(r) ==
  \/ OnMessageExternal(r)
  \/ OnPortMessage(r)
  \/ Continue(r)
  \/ Respond(r)

\* The router serving two requests that may overlap.
Next == StoreResolve \/ \E r \in Reqs : RouterStep(r)
Spec == Init /\ [][Next]_vars

\* One step of the page's clipboard paste.
PasteStep ==
  \/ PasteClick
  \/ PasteResolve
  \/ PasteReject

\* The invocation a confirmed click runs as: the first one that has not
\* started.
NextInvocation(u) == \A v \in UIRuns : run[v].pc = "idle" => v <= u

\* One step of the delete click handler: a click on delete, taken whenever
\* the button is enabled (the handler has no guard of its own against a
\* click during a run), or the continuation of an invocation.
DeleteStep ==
  \/ \E u \in UIRuns : NextInvocation(u) /\ DeleteClick(u)
  \/ \E u \in UIRuns : RunContinue(u)

\* The file the operator imports on the page that also deletes: the array
\* ["12","7"].
ListFiles == {f \in Files : ImportText(f) = {<<"1", "2", "\n", "7">>} /\ f[2] = "\""}

\* One step of the manual page: any of its listeners or continuations.
PageStep ==
  \/ TypeText
  \/ ClearClick
  \/ PasteStep
  \/ FileChosenFrom(ListFiles)
  \/ FileLoaded
  \/ DeleteStep

\* The manual page alone against the store.
PageNext == StoreResolve \/ PageStep
SpecPage == Init /\ [][PageNext]_vars

\* The input of the page alone: typing, clearing, pasting, importing any file.
ImportNext ==
  \/ TypeText
  \/ ClearClick
  \/ PasteStep
  \/ FileChosenFrom(Files)
  \/ FileLoaded
SpecImport == Init /\ [][ImportNext]_vars

\* A caller that sends a delete batch and, once it has been answered, sends a
\* second delete batch (a retry): ids "12" and "2" are bookmarks, "7" is not.
RetryIds == {Num(12), StrV(<<"2">>), StrV(<<"7">>)}
RetryMessages == {Msg("deleteBookmarks", Arr(l), Undef) : l \in SeqsUpTo(RetryIds, MaxLen)}
FirstBatch == \E m \in RetryMessages : ExternalListener(1, m) \/ PortListener(1, m)
Resubmit ==
  /\ pc[1] = "done"
  /\ \E m \in RetryMessages : ExternalListener(2, m) \/ PortListener(2, m)
RetryNext ==
  \/ StoreResolve
  \/ FirstBatch
  \/ Resubmit
  \/ \E r \in Reqs : Continue(r)
  \/ \E r \in Reqs : Respond(r)
SpecRetry == Init /\ [][RetryNext]_vars

\* One request of the router racing for the store with delete runs of the
\* page: its input, clear and delete listeners, with no clipboard or file
\* read pending.
AllNext == StoreResolve \/ RouterStep(1) \/ TypeText \/ ClearClick \/ DeleteStep
SpecAll == Init /\ [][AllNext]_vars

\* ------------------------------------------------------------- properties
Recognized == {"ping", "deleteBookmarks", "findBookmarksByUrl"}
IsBatch(m) == m.action \in {"deleteBookmarks", "findBookmarksByUrl"}
Sent(r) == chan[r] # "none"
\* The batch function (deleteBookmarks or findBookmarksByUrl) was called for r.
Invoked(r) == pc[r] \in {"await", "settled"} \/ fate[r].kind # "pending"
Outstanding(o) == {c \in inflight : c.owner = o}
IsPrefix(a, b) == Len(a) <= Len(b) /\ \A i \in 1..Len(a) : a[i] = b[i]

\* C1: a batch function called on a sequence of N items returns a result list
\* of exactly N entries, and entry i carries String(item i) as its id
\* (deleteBookmarks) or item i as its url (findBookmarksByUrl); while the
\* batch runs the list is the prefix built so far.
C1_ResultsMirrorInput ==
  \A r \in Reqs :
    (Invoked(r) /\ Iterable(Field(req[r]))) =>
      LET items == Items(req[r]) IN
      /\ Len(results[r]) <= Len(items)
      /\ (fate[r].kind = "resolved" => Len(results[r]) = Len(items))
      /\ \A i \in 1..Len(results[r]) :
           IF req[r].action = "deleteBookmarks"
           THEN "id" \in results[r][i].keys /\ results[r][i].id = ToStr(items[i])
           ELSE "url" \in results[r][i].keys /\ results[r][i].url = items[i]

\* C1 witness: a delete of ["7", 12] has returned [{id "7", failed},
\* {id "12", ok}] and a lookup of two URLs has returned two entries.
C1_Witness ==
  /\ req[1] = Msg("deleteBookmarks", Arr(<<StrV(<<"7">>), Num(12)>>), Undef)
  /\ fate[1].kind = "resolved"
  /\ Len(results[1]) = 2
  /\ results[1][1].id = <<"7">> /\ ~results[1][1].success
  /\ results[1][2].id = <<"1", "2">> /\ results[1][2].success
  /\ req[2] = Msg("findBookmarksByUrl", Undef, Arr(<<StrV(UrlZ), StrV(UrlA)>>))
  /\ fate[2].kind = "resolved"
  /\ Len(results[2]) = 2
  /\ results[2][2].url = StrV(UrlA) /\ Len(results[2][2].bookmarks) = 2

\* C2: in a finished deleteBookmarks batch every item was handed to the
\* store, entry i has success:true exactly when the remove of item i
\* succeeded, and the entry of a faulted remove is {id, success:false, error}
\* with the store's message.
C2_FailureIsolation ==
  \A r \in Reqs :
    (req[r].action = "deleteBookmarks" /\ Iterable(Field(req[r]))
       /\ fate[r].kind = "resolved") =>
      LET items == Items(req[r]) IN
      /\ Len(issued[r]) = Len(items)
      /\ Len(settled[r]) = Len(items)
      /\ Len(results[r]) = Len(items)
      /\ \A i \in 1..Len(items) :
           /\ issued[r][i] = [op |-> "remove", arg |-> StrV(ToStr(items[i]))]
           /\ settled[r][i].k = i
           /\ results[r][i].success = (settled[r][i].st = "ok")
           /\ settled[r][i].st = "ok" => results[r][i].keys = {"id", "success"}
           /\ settled[r][i].st = "fault" =>
                /\ results[r][i].keys = {"id", "success", "error"}
                /\ results[r][i].id = ToStr(items[i])
                /\ results[r][i].error = settled[r][i].err

\* C2 witness: the remove of a present bookmark faulted at position 1 and the
\* item after it was still removed and recorded as a success.
C2_Witness ==
  \E r \in Reqs :
    /\ req[r].action = "deleteBookmarks" /\ fate[r].kind = "resolved"
    /\ Len(settled[r]) = 2
    /\ settled[r][1].st = "fault" /\ settled[r][1].err = StoreFaultMsg
    /\ settled[r][2].st = "ok"
    /\ ~results[r][1].success /\ results[r][2].success

\* C3: a batch (of a request or of a page run) never has two store calls
\* outstanding, and it has issued at most one call more than have settled.
C3_OneCallAtATime ==
  \A o \in Owners :
    /\ Cardinality(Outstanding(o)) <= 1
    /\ Len(issued[o]) <= Len(settled[o]) + 1

\* C3 witness: a request and a page run are both waiting for the call of
\* their second item.
C3_Witness ==
  /\ \E c \in inflight : c.owner = 1 /\ c.k = 2 /\ c.st = "pending"
  /\ \E c \in inflight : c.owner = 0 /\ c.k = 2 /\ c.st = "pending"
  /\ Len(settled[1]) = 1 /\ Len(settled[0]) = 1

\* C4: a one-shot request with a recognized action never has two responses,
\* has exactly one once its handling is over, and a batch's response is there
\* only when every store call of the batch has settled and none is left.
C4_ExactlyOneResponse ==
  \A r \in Reqs :
    (chan[r] = "oneshot" /\ req[r].action \in Recognized) =>
      /\ Len(resp[r]) <= 1
      /\ pc[r] = "done" => Len(resp[r]) = 1
      /\ (Len(resp[r]) = 1 /\ IsBatch(req[r])) =>
           /\ Outstanding(r) = {}
           /\ Len(settled[r]) = Len(issued[r])
           /\ Len(settled[r]) = Len(Items(req[r]))

\* C4 witness: a one-shot delete of two ids has its single response, after
\* both removes settled.
C4_Witness ==
  \E r \in Reqs :
    /\ chan[r] = "oneshot" /\ req[r].action = "deleteBookmarks"
    /\ Len(settled[r]) = 2 /\ pc[r] = "done" /\ Len(resp[r]) = 1

\* C5 (as claimed): a request with a recognized action on a persistent
\* connection gets one message, the envelope the one-shot channel returns
\* for it.
C5_PortLikeOneShot ==
  \A r \in Reqs :
    (chan[r] = "port" /\ req[r].action \in Recognized /\ pc[r] = "done") =>
      /\ Len(resp[r]) = 1
      /\ resp[r][1] = IF req[r].action = "ping" THEN Pong
                      ELSE EnvelopeOf(fate[r], results[r])

\* C6: a request whose action is not recognized gets no response and causes
\* no store call, on either transport.
C6_UnknownActionDropped ==
  \A r \in Reqs :
    (Sent(r) /\ req[r].action \notin Recognized) =>
      /\ resp[r] = <<>>
      /\ issued[r] = <<>> /\ settled[r] = <<>> /\ Outstanding(r) = {}
      /\ pc[r] = "done"

\* C6 witness: an unrecognized action has been received on the one-shot
\* channel and another on a persistent connection.
C6_Witness ==
  /\ chan[1] = "oneshot" /\ req[1].action = "exportBookmarks"
  /\ chan[2] = "port" /\ req[2].action = "exportBookmarks"

\* C7: the response to a batch request whose field is an array is
\* {success:true, results} with one entry per item, whatever the items'
\* outcomes; a handled request that is over has that response.
C7_EnvelopeSuccess ==
  \A r \in Reqs :
    (Sent(r) /\ IsBatch(req[r]) /\ Field(req[r]).shape = "array") =>
      /\ \A i \in 1..Len(resp[r]) :
           /\ resp[r][i].success
           /\ resp[r][i].keys = {"success", "results"}
           /\ resp[r][i].results = results[r]
           /\ Len(resp[r][i].results) = Len(Field(req[r]).items)
      /\ (pc[r] = "done" /\ (chan[r] = "oneshot" \/ req[r].action = "deleteBookmarks"))
           => Len(resp[r]) = 1

\* C7 witness: every item of a delete failed and the envelope still says
\* success:true; every search of a lookup faulted and so does its envelope.
C7_Witness ==
  /\ req[1].action = "deleteBookmarks" /\ Len(resp[1]) = 1
  /\ Len(resp[1][1].results) = 2
  /\ \A i \in 1..2 : ~resp[1][1].results[i].success
  /\ resp[1][1].success
  /\ req[2].action = "findBookmarksByUrl" /\ Len(resp[2]) = 1
  /\ Len(resp[2][1].results) = 2
  /\ \A i \in 1..2 : "error" \in resp[2][1].results[i].keys
  /\ resp[2][1].success

\* C8 (as claimed): a batch request whose field is missing or is not an
\* array causes no store call and ends with the single envelope
\* {success:false, error}.
C8_MalformedRejected ==
  \A r \in Reqs :
    (Sent(r) /\ IsBatch(req[r]) /\ Field(req[r]).shape # "array") =>
      /\ issued[r] = <<>>
      /\ pc[r] = "done" =>
           /\ Len(resp[r]) = 1
           /\ ~resp[r][1].success
           /\ resp[r][1].keys = {"success", "error"}

PingArrives(r) == chan[r] = "none" /\ chan'[r] = "oneshot" /\ req'[r].action = "ping"

\* C9: a one-shot ping has, from the step that handles it on, one response
\* with success:true, with or without a payload; it never causes a store
\* call, and the step that handles it leaves the store and the calls in
\* flight as they were.
C9_PingAcknowledged ==
  /\ [](\A r \in Reqs :
          (chan[r] = "oneshot" /\ req[r].action = "ping") =>
            /\ Len(resp[r]) = 1 /\ resp[r][1].success
            /\ issued[r] = <<>> /\ settled[r] = <<>> /\ Outstanding(r) = {})
  /\ [][\A r \in Reqs :
          PingArrives(r) => (store' = store /\ inflight' = inflight)]_vars

\* C9 witness: a ping with a payload and a ping without one were answered
\* while the store still holds every bookmark.
C9_Witness ==
  /\ chan[1] = "oneshot" /\ req[1] = Msg("ping", Arr(<<Num(12)>>), Undef)
  /\ chan[2] = "oneshot" /\ req[2] = Msg("ping", Undef, Undef)
  /\ resp[1] = <<Pong>> /\ resp[2] = <<Pong>>
  /\ store = InitStore

\* C10: the store calls of a deleteBookmarks batch are removes, the i-th one
\* of String(item i), never more than N of them and exactly N once the batch
\* has returned; a page run does the same with its ids, and when it waits in
\* turn i of its loop it has called remove for the first i + 1 of them; no
\* other request ever issues a remove.
C10_RemoveCalls ==
  /\ \A r \in Reqs :
       IF req[r].action = "deleteBookmarks" /\ Iterable(Field(req[r]))
       THEN LET items == Items(req[r]) IN
            /\ IsPrefix(issued[r],
                        [i \in 1..Len(items) |-> [op |-> "remove", arg |-> StrV(ToStr(items[i]))]])
            /\ fate[r].kind = "resolved" => Len(issued[r]) = Len(items)
       ELSE \A i \in 1..Len(issued[r]) : issued[r][i].op # "remove"
  /\ \A u \in UIRuns :
       LET ids == run[u].ids IN
       /\ IsPrefix(issued[u], [i \in 1..Len(ids) |-> [op |-> "remove", arg |-> StrV(ids[i])]])
       /\ run[u].pc = "await" => Len(issued[u]) = run[u].i + 1 /\ run[u].i < Len(ids)

\* C10 witness: a batch of the number 12 twice has called remove("12") twice,
\* and a page run over the text " 12 \n#x\n\n2" has called remove("12") and
\* remove("2") and waits for the second call.
C10_Witness ==
  /\ req[1].bookmarkIds = Arr(<<Num(12), Num(12)>>)
  /\ req[1].action = "deleteBookmarks"
  /\ fate[1].kind = "resolved"
  /\ issued[1] = << [op |-> "remove", arg |-> StrV(<<"1", "2">>)],
                    [op |-> "remove", arg |-> StrV(<<"1", "2">>)] >>
  /\ run[0].pc = "await" /\ run[0].i = 1
  /\ issued[0] = << [op |-> "remove", arg |-> StrV(<<"1", "2">>)],
                    [op |-> "remove", arg |-> StrV(<<"2">>)] >>

\* The ids of the bookmarks in a store.
IdsIn(st) == {st[i].id : i \in 1..Len(st)}
\* The ids that the entries of rs before position n report as removed.
RemovedBefore(rs, n) == {rs[j].id : j \in {q \in 1..Len(rs) : q < n /\ rs[q].success}}

\* C11: a delete batch resubmitted after an earlier batch has been answered
\* reports {success:false, error: not found} for exactly the ids that are no
\* longer in the store (never there, removed by the earlier batch, or removed
\* earlier in this batch); every other id is handed to the store, and unless
\* the store itself faults on it, it is removed and reported success:true.
C11_RetryAfterPartialRemoval ==
  (/\ req[1].action = "deleteBookmarks" /\ req[2].action = "deleteBookmarks"
   /\ fate[1].kind = "resolved" /\ fate[2].kind = "resolved") =>
    LET items == Items(req[2])
        gone(i) == \/ ToStr(items[i]) \notin IdsIn(InitStore)
                   \/ ToStr(items[i]) \in RemovedBefore(results[1], Len(results[1]) + 1)
                   \/ ToStr(items[i]) \in RemovedBefore(results[2], i)
    IN /\ Len(results[2]) = Len(items)
       /\ \A i \in 1..Len(items) :
            /\ results[2][i].id = ToStr(items[i])
            /\ gone(i) => /\ ~results[2][i].success
                          /\ results[2][i].error = NotFoundMsg
            /\ (~gone(i) /\ settled[2][i].err # StoreFaultMsg) =>
                 /\ results[2][i].success
                 /\ ToStr(items[i]) \notin IdsIn(store)
            /\ (~gone(i) /\ settled[2][i].err = StoreFaultMsg) =>
                 /\ ~results[2][i].success
                 /\ results[2][i].error = StoreFaultMsg

\* C11 witness: the first batch [12] removed bookmark 12; the resubmitted
\* batch [12, "2"] reports 12 as not found and "2" as removed.
C11_Witness ==
  /\ req[1] = Msg("deleteBookmarks", Arr(<<Num(12)>>), Undef)
  /\ fate[1].kind = "resolved" /\ results[1][1].success
  /\ req[2] = Msg("deleteBookmarks", Arr(<<Num(12), StrV(<<"2">>)>>), Undef)
  /\ fate[2].kind = "resolved"
  /\ ~results[2][1].success /\ results[2][1].error = NotFoundMsg
  /\ results[2][2].success /\ results[2][2].id = <<"2">>
  /\ IdsIn(store) = {<<"1">>}

\* The positions of the bookmarks of store st that have URL url.
PositionsOf(st, url) == {k \in 1..Len(st) : st[k].url = url}
\* The position in store st of the bookmark with id id.
PositionOf(st, id) == CHOOSE k \in 1..Len(st) : st[k].id = id

\* C12: the entry of a URL whose search succeeded is {url, bookmarks} with no
\* error key; bookmarks has one element per match the store returned, in the
\* store's order, each with exactly the keys id, title, url and parentId of
\* that match; a URL that nobody bookmarked gets bookmarks: [].
C12_LookupEntries ==
  \A r \in Reqs :
    (req[r].action = "findBookmarksByUrl" /\ chan[r] = "oneshot"
       /\ Iterable(Field(req[r]))) =>
      \A i \in 1..Len(results[r]) :
        settled[r][i].st = "ok" =>
          LET e == results[r][i]
              found == settled[r][i].matches
              url == issued[r][i].arg.s
          IN /\ e.keys = {"url", "bookmarks"}
             /\ e.url = Items(req[r])[i]
             /\ Len(e.bookmarks) = Len(found)
             /\ \A k \in 1..Len(found) :
                  /\ DOMAIN e.bookmarks[k] = {"id", "title", "url", "parentId"}
                  /\ e.bookmarks[k].id = found[k].id
                  /\ e.bookmarks[k].title = found[k].title
                  /\ e.bookmarks[k].url = found[k].url
                  /\ e.bookmarks[k].parentId = found[k].parentId
                  /\ found[k].url = url
                  /\ k > 1 => PositionOf(InitStore, found[k - 1].id)
                                < PositionOf(InitStore, found[k].id)
             /\ store = InitStore =>
                  Len(e.bookmarks) = Cardinality(PositionsOf(InitStore, url))
             /\ PositionsOf(InitStore, url) = {} => e.bookmarks = <<>>

\* C12 witness: a lookup of [z, a] has returned {url: z, bookmarks: []} and
\* {url: a, bookmarks: [bookmark 1, bookmark 12]}.
C12_Witness ==
  /\ req[1] = Msg("findBookmarksByUrl", Undef, Arr(<<StrV(UrlZ), StrV(UrlA)>>))
  /\ fate[1].kind = "resolved"
  /\ results[1][1].keys = {"url", "bookmarks"} /\ results[1][1].bookmarks = <<>>
  /\ results[1][2].keys = {"url", "bookmarks"}
  /\ Len(results[1][2].bookmarks) = 2
  /\ results[1][2].bookmarks[1].id = <<"1">>
  /\ results[1][2].bookmarks[2].id = <<"1", "2">>

\* C13: in a finished findBookmarksByUrl batch every URL was handed to the
\* store, in order; the entry of a faulted search is {url, error,
\* bookmarks: []} with the store's message, and the entry of every other URL
\* carries that URL's own matches.
C13_LookupFailureIsolation ==
  \A r \in Reqs :
    (req[r].action = "findBookmarksByUrl" /\ chan[r] = "oneshot"
       /\ Iterable(Field(req[r])) /\ fate[r].kind = "resolved") =>
      LET items == Items(req[r]) IN
      /\ Len(issued[r]) = Len(items)
      /\ Len(settled[r]) = Len(items)
      /\ Len(results[r]) = Len(items)
      /\ \A i \in 1..Len(items) :
           /\ issued[r][i].op = "search"
           /\ settled[r][i].k = i
           /\ results[r][i].url = items[i]
           /\ settled[r][i].st = "fault" =>
                /\ results[r][i].keys = {"url", "error", "bookmarks"}
                /\ results[r][i].error = settled[r][i].err
                /\ results[r][i].bookmarks = <<>>
           /\ settled[r][i].st = "ok" =>
                /\ "error" \notin results[r][i].keys
                /\ Len(results[r][i].bookmarks) = Len(settled[r][i].matches)

\* C13 witness: the search of the first URL faulted and the second URL was
\* still looked up and its two bookmarks recorded.
C13_Witness ==
  \E r \in Reqs :
    /\ req[r] = Msg("findBookmarksByUrl", Undef, Arr(<<StrV(UrlA), StrV(UrlA)>>))
    /\ fate[r].kind = "resolved"
    /\ settled[r][1].st = "fault" /\ settled[r][2].st = "ok"
    /\ "error" \in results[r][1].keys /\ results[r][1].bookmarks = <<>>
    /\ Len(results[r][2].bookmarks) = 2

\* A step in which the operator answers the confirmation prompt with cancel.
Declines == alerted' = "confirm: cancelled" /\ alerted # "confirm: cancelled"

\* C14: when the operator declines the confirmation prompt, no store call is
\* made, the input text, the progress indicator and the result log are as
\* they were, and load, paste, clear, delete and the text input are all
\* enabled afterwards.
C14_DeclineLeavesPageReady ==
  [][Declines =>
       /\ inflight' = inflight /\ issued' = issued /\ store' = store
       /\ text' = text /\ progress' = progress /\ log' = log
       /\ \A c \in Controls : ~disabled'[c]]_vars

\* Steps in which the click handler of run u passes its confirm() and
\* disables the controls, and in which it leaves its loop and returns.
RunStarts(u) == run[u].pc = "idle" /\ run'[u].pc = "await"
RunEnds(u) == run[u].pc = "await" /\ run'[u].pc = "done"
\* The number of store calls of a run that failed.
Failures(u) == Cardinality({i \in 1..Len(settled[u]) : settled[u][i].st # "ok"})

\* C15 as stated: right after a confirmed run starts all five controls are
\* disabled, and right after it ends all five are enabled, whatever the
\* outcome.
C15_AllEnabledAfterRun ==
  [][\A u \in UIRuns :
       /\ RunStarts(u) => \A c \in Controls : disabled'[c]
       /\ RunEnds(u) => \A c \in Controls : ~disabled'[c]]_vars

\* C15, amended: right after a confirmed run starts all five controls are
\* disabled; right after it ends load, paste, clear and the text input are
\* enabled, and the delete button is enabled exactly when an item failed:
\* after a run without failure the input is cleared and updateCount()
\* disables the button again.
C15_ControlsAtRunEdges ==
  [][\A u \in UIRuns :
       /\ RunStarts(u) => \A c \in Controls : disabled'[c]
       /\ RunEnds(u) =>
            /\ \A c \in Controls \ {"delete"} : ~disabled'[c]
            /\ disabled'["delete"] = (Failures(u) = 0)]_vars

\* C15 witness: a run of two ids has just ended without a failure: the input
\* is empty, the delete button disabled, the other four controls enabled.
C15_Witness ==
  /\ run[0].pc = "done" /\ run[-1].pc = "idle"
  /\ progress.shown /\ progress.text = Complete(2, 0)
  /\ text = <<>>
  /\ disabled = [c \in Controls |-> c = "delete"]

\* C16: while a run is going (from the step that disables the controls to
\* the step that re-enables them) every control is disabled, whatever other
\* callbacks of the page run in between.
C16_DisabledDuringRun ==
  \A u \in UIRuns : run[u].pc = "await" => \A c \in Controls : disabled[c]

\* The double x is below h / 2, for a natural h.
BelowHalves(x, h) ==
  LET hb == BitsOf(h) \o [i \in 1..(x.f - 1) |-> 0]
  IN \/ Len(x.m) < Len(hb)
     \/ /\ Len(x.m) = Len(hb)
        /\ \E i \in 1..Len(hb) :
             /\ x.m[i] < hb[i]
             /\ \A j \in 1..(i - 1) : x.m[j] = hb[j]

\* w is the page's k / n * 100 rounded to the nearest integer, halves up:
\* the double the page computes lies from w - 1/2 up to, not including,
\* w + 1/2.
Rounded(w, k, n) ==
  LET x == DoubleTimes(DoubleDiv(k, n), 100)
  IN (w = 0 \/ ~BelowHalves(x, 2 * w - 1)) /\ BelowHalves(x, 2 * w + 1)

\* C17 as stated: whenever exactly k of the n store calls of a run have
\* settled (k from 1 to n), the displayed percentage is round(k / n * 100).
C17_PercentOfCompleted ==
  \A u \in UIRuns :
    (run[u].pc = "await" /\ Len(settled[u]) >= 1) =>
      Rounded(progress.width, Len(settled[u]), Len(run[u].ids))

\* C17, amended: the step in which the loop of a run of n ids reaches its
\* k-th id sets the displayed percentage to k / n * 100 as the page computes
\* it in double arithmetic, rounded to the nearest integer, before the store
\* call of that id is issued; the step that ends the run sets it to 100.
C17_PercentOfCurrentItem ==
  [][\A u \in UIRuns :
       /\ (run'[u].pc = "await" /\ (run[u].pc = "idle" \/ run'[u].i # run[u].i)) =>
            Rounded(progress'.width, run'[u].i + 1, Len(run'[u].ids))
       /\ RunEnds(u) => progress'.width = 100]_vars

\* C17 witness: in a run of three ids the first call has settled and the
\* loop has reached the second id: the bar shows 67.
C17_Witness ==
  /\ run[0].pc = "await" /\ Len(run[0].ids) = 3 /\ run[0].i = 1
  /\ Len(settled[0]) = 1
  /\ progress.width = 67

\* C18: when a run ends without a failure the input is empty; when it ends
\* with a failure the input holds the text it held when the run started.
C18_TextAfterRun ==
  [][\A u \in UIRuns :
       RunEnds(u) =>
         text' = IF Failures(u) = 0 THEN <<>> ELSE run[u].textAtStart]_vars

\* A step in which the FileReader delivers the text f of a file.
FileLoads(f) == f \in reads /\ reads' = reads \ {f}

\* The files that hold a JSON array whose elements all convert, each with
\* the lines its elements stand for, read off the file by the JSON grammar
\* and the conversions of the language (String of a scalar, the id member of
\* a record), independently of the parser above.
ArrayFiles ==
  << \* an empty array: no line at all
     [file |-> <<"[", "]">>,
      lines |-> <<>>],
     \* two strings
     [file |-> <<"[", "\"", "1", "2", "\"", ",", "\"", "7", "\"", "]">>,
      lines |-> <<<<"1", "2">>, <<"7">>>>],
     \* two numbers
     [file |-> <<"[", "1", "2", ",", " ", "7", "]">>,
      lines |-> <<<<"1", "2">>, <<"7">>>>],
     \* two records: their ids, a string and a number
     [file |-> <<"[", "{", "\"", "i", "d", "\"", ":", "\"", "1", "2", "\"", ",", "\"", "t", "i", "t", "l", "e", "\"", ":", "\"", "x", "\"", "}", ",", "{", "\"", "i", "d", "\"", ":", "2", "}", "]">>,
      lines |-> <<<<"1", "2">>, <<"2">>>>],
     \* a record without an id, which reads as undefined and joins as
     \* nothing, then a string
     [file |-> <<"[", "{", "\"", "t", "i", "t", "l", "e", "\"", ":", "\"", "x", "\"", "}", ",", "\"", "2", "\"", "]">>,
      lines |-> <<<<>>, <<"2">>>>],
     \* a boolean, a fraction, and -2e1, which is -20
     [file |-> <<"[", "t", "r", "u", "e", ",", "1", ".", "5", ",", "-", "2", "e", "1", "]">>,
      lines |-> <<<<"t", "r", "u", "e">>, <<"1", ".", "5">>, <<"-", "2", "0">>>>],
     \* one string, written with the escapes of 1 and of /
     [file |-> <<"[", "\"", "\\", "u", "0", "0", "3", "1", "\\", "/", "2", "\"", "]">>,
      lines |-> <<<<"1", "/", "2">>>>],
     \* a record with two members named id, of which the last counts:
     \* 0.5E-6 is 5e-7, which prints in exponent notation
     [file |-> <<"[", "{", "\"", "i", "d", "\"", ":", "[", "1", ",", "[", "2", ",", "n", "u", "l", "l", "]", "]", ",", "\"", "i", "d", "\"", ":", "0", ".", "5", "E", "-", "6", "}", "]">>,
      lines |-> <<<<"5", "e", "-", "7">>>>],
     \* 0.0...01e100000, with 9999 zeros after the point, is 10^90000,
     \* beyond every double (Infinity); -2E-100000 rounds to (minus) zero,
     \* which prints as 0; 0.001e+00000000005 is 100
     [file |-> (<<"[", "0", ".">> \o [j \in 1..9999 |-> "0"]
      \o <<"1", "e", "1", "0", "0", "0", "0", "0", ",", "-", "2", "E", "-", "1", "0", "0", "0", "0", "0", ",", "0", ".", "0", "0", "1", "e", "+", "0", "0", "0", "0", "0", "0", "0", "0", "0", "0", "5", "]">>),
      lines |-> <<<<"I", "n", "f", "i", "n", "i", "t", "y">>, <<"0">>, <<"1", "0", "0">>>>] >>

\* The files the handler must leave as they are.
RawFiles ==
  { \* an array holding null: reading null.id throws a TypeError
    <<"[", "\"", "1", "2", "\"", ",", "n", "u", "l", "l", "]">>,
    \* a record, no array
    <<"{", "\"", "i", "d", "\"", ":", "\"", "1", "2", "\"", "}">>,
    \* a number, no array
    <<"1", "2">>,
    \* an id that is a record whose toString is no function: join throws
    \* a TypeError
    <<"[", "{", "\"", "i", "d", "\"", ":", "{", "\"", "t", "o", "S", "t", "r", "i", "n", "g", "\"", ":", "1", "}", "}", "]">>,
    \* no JSON text: JSON.parse throws a SyntaxError
    <<"1", "2", "\n", "#", "x", "\n", "2">> }

RECURSIVE LinesJoined(_)
\* Lines put together with a newline between two of them.
LinesJoined(lines) ==
  IF lines = <<>> THEN <<>>
  ELSE IF Len(lines) = 1 THEN lines[1]
  ELSE lines[1] \o <<"\n">> \o LinesJoined(Tail(lines))

\* C19: when the text of an imported file parses as an array and every
\* element converts, the input receives one line per element, in order: a
\* scalar as itself, a record as the value of its id; when the text does not
\* parse, parses as something else, or an element makes the conversion
\* throw, the input receives the file's text as it is. No alert is shown.
C19_FileImport ==
  [][\A f \in Files :
       FileLoads(f) =>
         /\ alerted' = alerted
         /\ f \in RawFiles \/ \E k \in 1..Len(ArrayFiles) : ArrayFiles[k].file = f
         /\ f \in RawFiles => text' = f
         /\ \A k \in 1..Len(ArrayFiles) :
              ArrayFiles[k].file = f => text' = LinesJoined(ArrayFiles[k].lines)]_vars

\* C19 witness: the file [{"id":"12","title":"x"},{"id":2}] has been
\* imported: the input holds the two lines 12 and 2.
C19_Witness ==
  /\ text = <<"1", "2", "\n", "2">>
  /\ reads = {}
  /\ count = 2 /\ ~disabled["delete"]

\* The positions of text t that end a line, with 0 before the first line.
Breaks(t) == {0} \cup {k \in 1..Len(t) : t[k] = "\n"} \cup {Len(t) + 1}
\* The end of the line of t that starts after position b.
LineEnd(t, b) ==
  LET br == Breaks(t) IN CHOOSE c \in br : c > b /\ \A d \in br : d > b => c <= d
\* The positions of that line that hold something else than white space.
Inked(t, b) == {k \in (b + 1)..(LineEnd(t, b) - 1) : ~IsSpace(t[k])}
\* That line without the white space around it.
Stripped(t, b) ==
  LET ink == Inked(t, b)
  IN IF ink = {} THEN <<>>
     ELSE SubSeq(t, CHOOSE k \in ink : \A j \in ink : k <= j,
                    CHOOSE k \in ink : \A j \in ink : j <= k)
\* The starts of the lines of t that are neither blank nor a comment.
IdLineStarts(t) ==
  {b \in Breaks(t) \ {Len(t) + 1} : Inked(t, b) # {} /\ Stripped(t, b)[1] # "#"}
\* Those lines, stripped, in the order of the text.
IdLines(t) ==
  LET starts == IdLineStarts(t)
  IN [i \in 1..Cardinality(starts) |->
        Stripped(t, CHOOSE b \in starts : Cardinality({c \in starts : c < b}) = i - 1)]

\* C20: getIds() returns the lines of the input text, trimmed, in their
\* order, without the blank ones and without those whose first character
\* after the white space is '#'; no identifier it returns is empty, starts
\* or ends with white space, or starts with '#'. The count shown and the ids
\* of a run are that list.
C20_GetIds ==
  /\ GetIds(text) = IdLines(text)
  /\ count = Len(IdLines(text))
  /\ \A u \in UIRuns :
       run[u].pc = "await" =>
         /\ run[u].ids = IdLines(run[u].textAtStart)
         /\ \A i \in 1..Len(run[u].ids) :
              LET id == run[u].ids[i] IN
              /\ Len(id) > 0
              /\ ~IsSpace(id[1]) /\ ~IsSpace(id[Len(id)])
              /\ id[1] # "#"

\* C20 witness: a run was started on the pasted text
\* "\t\f7 \n #c\n<no-break space> \n2#3\n1\n":
\* its ids are 7, 2#3 and 1.
C20_Witness ==
  /\ run[0].pc = "await"
  /\ run[0].textAtStart \in ClipTexts
  /\ run[0].ids = << <<"7">>, <<"2", "#", "3">>, <<"1">> >>

\* Request r is a deleteBookmarks batch received by the port.onMessage
\* listener. The listener of every connection is the same closure, so two
\* such requests stand for two messages of one connection as well.
PortDelete(r) ==
  chan[r] = "port" /\ req[r].action = "deleteBookmarks" /\ Iterable(Field(req[r]))

\* C21: of two deleteBookmarks requests on a persistent connection, the
\* second one issues no store call and is not answered while the first one
\* is still waiting for a store call of its own.
C21_PortRequestsSerial ==
  (PortDelete(1) /\ PortDelete(2)) =>
    \A c \in Outstanding(1) :
      c.st = "pending" => issued[2] = <<>> /\ resp[2] = <<>>

\* Requests 1 and 2 are batches that arrived on different transports.
AcrossTransports ==
  /\ {chan[1], chan[2]} = {"oneshot", "port"}
  /\ \A r \in Reqs : IsBatch(req[r]) /\ Iterable(Field(req[r])) /\ Invoked(r)

\* The outcome of the i-th store call of request r, as the loop of r saw it.
OwnCall(r, i) ==
  [st |-> settled[r][i].st, err |-> settled[r][i].err,
   matches |-> settled[r][i].matches, arg |-> issued[r][i].arg]

\* C22: when a one-shot batch and a persistent-connection batch overlap,
\* the result list of each holds, for the items it has got through, exactly
\* the entries built from its own items and the outcomes of its own store
\* calls, in its own input order, it ends with one entry per own item, and
\* the response each one gets carries its own list.
C22_ResultsCallScoped ==
  AcrossTransports =>
    \A r \in Reqs :
      LET items == Items(req[r])
          op == BatchOp(req[r].action)
      IN /\ Len(results[r]) = idx[r] /\ idx[r] <= Len(items)
         /\ Len(settled[r]) >= idx[r] /\ Len(issued[r]) >= idx[r]
         /\ results[r] = [i \in 1..idx[r] |-> EntryFor(op, items[i], OwnCall(r, i))]
         /\ fate[r].kind = "resolved" => idx[r] = Len(items)
         /\ resp[r] # <<>> => resp[r] = <<OkResults(results[r])>> /\ idx[r] = Len(items)

\* C22 witness: a one-shot delete of ["7", 12] and a port delete of [12]
\* were in flight together and their removes interleaved: the port batch
\* removed bookmark 12 after the one-shot batch had started and before the
\* one-shot batch asked for it; each list holds its own entries only.
C22_Witness ==
  /\ chan[1] = "oneshot" /\ chan[2] = "port"
  /\ req[1] = Msg("deleteBookmarks", Arr(<<StrV(<<"7">>), Num(12)>>), Undef)
  /\ req[2] = Msg("deleteBookmarks", Arr(<<Num(12)>>), Undef)
  /\ fate[1].kind = "resolved" /\ fate[2].kind = "resolved"
  /\ Len(results[1]) = 2 /\ Len(results[2]) = 1
  /\ results[2][1].success
  /\ ~results[1][2].success /\ results[1][2].error = NotFoundMsg
  /\ resp[1] # <<>> /\ resp[2] # <<>>

\* Request r is a findBookmarksByUrl message.
IsLookup(r) == req[r].action = "findBookmarksByUrl"

\* The handling of request r takes a step: it arrives, one of its searches
\* settles, its loop resumes or its response goes out.
HandlingStep(r) ==
  \/ chan'[r] # chan[r] \/ pc'[r] # pc[r] \/ idx'[r] # idx[r]
  \/ issued'[r] # issued[r] \/ settled'[r] # settled[r]
  \/ results'[r] # results[r] \/ resp'[r] # resp[r]

\* C26: the store calls of a findBookmarksByUrl request are searches, the
\* i-th one for exactly the i-th URL, one per URL once the batch has
\* returned, and never a remove; no step of the handling of a lookup changes
\* the store, so the store still holds every bookmark as long as no delete
\* request was sent.
C26_LookupReadOnly ==
  /\ [](\A r \in Reqs :
          IsLookup(r) =>
            /\ \A i \in 1..Len(issued[r]) :
                 /\ issued[r][i].op = "search"
                 /\ i <= Len(Items(req[r]))
                 /\ issued[r][i].arg = Items(req[r])[i]
            /\ \A c \in Outstanding(r) : c.op = "search"
            /\ (chan[r] = "oneshot" /\ fate[r].kind = "resolved") =>
                 Len(issued[r]) = Len(Items(req[r]))
            /\ (\A q \in Reqs : req[q].action # "deleteBookmarks") =>
                 store = InitStore)
  /\ [][\A r \in Reqs :
          ((IsLookup(r) \/ (chan[r] = "none" /\ req'[r].action = "findBookmarksByUrl"))
             /\ HandlingStep(r)) => store' = store]_vars

\* C26 witness: a lookup of [a, z] ran next to a lookup whose first search
\* faulted; both have returned, four searches went to the store with the
\* URLs as given, and the store holds every bookmark.
C26_Witness ==
  /\ chan[1] = "oneshot"
  /\ req[1] = Msg("findBookmarksByUrl", Undef, Arr(<<StrV(UrlA), StrV(UrlZ)>>))
  /\ fate[1].kind = "resolved" /\ resp[1] # <<>>
  /\ issued[1] = <<[op |-> "search", arg |-> StrV(UrlA)],
                   [op |-> "search", arg |-> StrV(UrlZ)]>>
  /\ chan[2] = "oneshot" /\ IsLookup(2)
  /\ fate[2].kind = "resolved" /\ Len(issued[2]) = 2
  /\ settled[2][1].st = "fault" /\ settled[2][2].st = "ok"
  /\ store = InitStore

\* C23 (the half that can be refuted in finitely many steps): as long as a
\* store call of a batch or of a page run has not resolved, that batch has
\* sent no response and has attempted no later item, and the page keeps
\* every control disabled.
C23_NothingMovesWhileAwaiting ==
  /\ \A r \in Reqs : \A c \in Outstanding(r) :
       c.st = "pending" => resp[r] = <<>> /\ Len(issued[r]) = c.k
  /\ \A u \in UIRuns : \A c \in Outstanding(u) :
       c.st = "pending" =>
         /\ Len(issued[u]) = c.k
         /\ \A b \in Controls : disabled[b]

\* The delete runs that are waiting for a store call that has not resolved.
RunsAwaiting ==
  {u \in UIRuns : run[u].pc = "await" /\ \E c \in Outstanding(u) : c.st = "pending"}

\* C25: at most one delete run of the page is in progress: never are two
\* runs waiting for a store call at the same time, whatever clipboard reads
\* and clicks on delete come in between.
C25_OneRunAtATime == Cardinality(RunsAwaiting) <= 1

\* The lines of the result log without the closing line the handler adds
\* after the loop when at least one bookmark was deleted.
ItemLines(lines) ==
  IF lines # <<>> /\ lines[Len(lines)].message.kind = "deleted and will sync"
  THEN SubSeq(lines, 1, Len(lines) - 1)
  ELSE lines

\* C24: while a run waits for a store call no step takes a line out of the
\* result log; the step that ends a run of n ids leaves in the log one line
\* per id, in input order, line i carrying id i and marked success exactly
\* when the remove of id i succeeded, and shows counts that sum to n.
C24_LogOfRun ==
  [][\A u \in UIRuns :
       /\ u \in RunsAwaiting => IsPrefix(log.lines, log'.lines)
       /\ RunEnds(u) =>
            LET ids == run[u].ids
                body == ItemLines(log'.lines)
            IN /\ Len(body) = Len(ids)
               /\ Len(settled[u]) = Len(ids)
               /\ \A i \in 1..Len(body) :
                    /\ body[i].message.id = ids[i]
                    /\ (body[i].cls = "success") = (settled[u][i].st = "ok")
               /\ progress'.text = Complete(Len(ids) - Failures(u), Failures(u))]_vars
====
